---------------------------- MODULE Spec2Model ----------------------------
(***************************************************************************)
(* Session acquisition handoff of linkedin-connect.                        *)
(*                                                                         *)
(*   POST /api/linkedin/connect   src/app/api/linkedin/connect/route.ts    *)
(*   GET  /api/linkedin/status    src/app/api/linkedin/status/route.ts     *)
(*   scripts/linkedin-login.js    src/unnamed/part_001 (lines 1-90)        *)
(*   page Home (connect client)   src/unnamed/part_001 (lines 96-151)      *)
(*   encrypt                      src/lib/encryption.ts                    *)
(*                                                                         *)
(* The login script is a detached process per session id; the two routes   *)
(* run in the web server.  The only state the two sides share is the       *)
(* handoff artifact  <tmpdir>/linkedin-session-<sessionId>.json.           *)
(*                                                                         *)
(* Fault model.  Every Playwright call the script awaits (launch,          *)
(* newContext/newPage, goto, cookies, waitForTimeout) either returns or    *)
(* throws.  browser.close() returns (Playwright resolves close() on a      *)
(* browser that is already gone).  fs calls of the script succeed: the     *)
(* script has already appended to a log file in the same tmpdir before it  *)
(* launches the browser.  fs.writeFileSync is open(O_TRUNC) followed by    *)
(* write: another process can see the file existing and empty in between.  *)
(* In the status route, JSON.parse throws on an empty file and             *)
(* encrypt/insert may throw (the route's own catch (dbError)).  The GET    *)
(* handler has no await, so one GET is one step of the server.             *)
(***************************************************************************)
EXTENDS Integers, Sequences, FiniteSets

(***************************************************************************)
(* Bounds of the model.                                                    *)
(***************************************************************************)
\* Number of session ids POST /connect can generate (uuidv4 is a fresh id).
MaxSessions == 2
\* TIMEOUT / CHECK_INTERVAL (300000 / 2000 in the script), scaled down: the
\* number of CHECK_INTERVAL ticks after which Date.now() - startTime < TIMEOUT
\* is false.
TimeoutTicks == 2

SessionIds == 1..MaxSessions
\* searchParams.get('sessionId') === null
NoSessionId == 0
PollIds == {NoSessionId} \cup SessionIds

(***************************************************************************)
(* Values.  A string is the sequence of its UTF-8 bytes.                   *)
(***************************************************************************)
\* li_at cookie values the browser's cookie jar may hold.
Tokens == { <<65>>, <<66, 67>> }
NoToken == << >>
\* crypto.randomBytes(IV_LENGTH): the initialisation vectors the model draws
\* from (one cipher block each; the model's cipher block is one byte).
IVs == { <<7>>, <<200>> }

(***************************************************************************)
(* src/lib/encryption.ts : encrypt                                         *)
(***************************************************************************)
HexDigits == <<"0", "1", "2", "3", "4", "5", "6", "7",
               "8", "9", "a", "b", "c", "d", "e", "f">>

\* Buffer.toString('hex'): two lower-case hex digits per byte.
RECURSIVE ToHex(_)
ToHex(bytes) ==
    IF bytes = << >> THEN << >>
    ELSE << HexDigits[(Head(bytes) \div 16) + 1], HexDigits[(Head(bytes) % 16) + 1] >>
         \o ToHex(Tail(bytes))

\* The keyed block permutation of the cipher (key = scryptSync(SECRET_KEY,
\* 'salt', 32) is fixed for the process): a bijection on one-byte blocks.
BlockEnc(b) == (b * 5 + 113) % 256

\* PKCS#7 padding as cipher.final() applies it; with one-byte blocks this is
\* always one block holding the pad length 1.
Pad(bytes) == bytes \o <<1>>

\* CBC chaining: each plaintext block is combined with the previous
\* ciphertext block (the IV for the first) and then enciphered.
RECURSIVE Cbc(_, _)
Cbc(prev, blocks) ==
    IF blocks = << >> THEN << >>
    ELSE LET c == BlockEnc((Head(blocks) + prev) % 256)
         IN  <<c>> \o Cbc(c, Tail(blocks))

\* encrypt(text) with the iv that randomBytes returned.
Encrypt(iv, text) ==
    ToHex(iv) \o <<":">> \o ToHex(Cbc(iv[Len(iv)], Pad(text)))


(***************************************************************************)
(* src/lib/encryption.ts : decrypt, and the string conversions of both     *)
(* directions.  A JavaScript string is the sequence of its UTF-16 code     *)
(* units; cipher.update(text) takes its UTF-8 encoding and                  *)
(* decrypted.toString() decodes UTF-8.                                     *)
(***************************************************************************)
IsHighSurrogate(u) == u >= 55296 /\ u <= 56319
IsLowSurrogate(u) == u >= 56320 /\ u <= 57343

\* The UTF-8 bytes of one code point (a scalar value).
Utf8OfCodePoint(cp) ==
    IF cp < 128 THEN << cp >>
    ELSE IF cp < 2048 THEN << 192 + (cp \div 64), 128 + (cp % 64) >>
    ELSE IF cp < 65536
         THEN << 224 + (cp \div 4096), 128 + ((cp \div 64) % 64), 128 + (cp % 64) >>
    ELSE << 240 + (cp \div 262144), 128 + ((cp \div 4096) % 64),
            128 + ((cp \div 64) % 64), 128 + (cp % 64) >>

\* Buffer.from(string, 'utf8') as cipher.update(text) applies it: a
\* surrogate pair is one code point, an unpaired surrogate is encoded as
\* U+FFFD (bytes EF BF BD).
RECURSIVE Utf8Encode(_)
Utf8Encode(units) ==
    IF units = << >> THEN << >>
    ELSE LET u == Head(units)
         IN  IF IsHighSurrogate(u) /\ Len(units) >= 2 /\ IsLowSurrogate(units[2])
             THEN Utf8OfCodePoint(65536 + (u - 55296) * 1024 + (units[2] - 56320))
                  \o Utf8Encode(Tail(Tail(units)))
             ELSE IF IsHighSurrogate(u) \/ IsLowSurrogate(u)
             THEN << 239, 191, 189 >> \o Utf8Encode(Tail(units))
             ELSE Utf8OfCodePoint(u) \o Utf8Encode(Tail(units))

IsContinuation(b) == b >= 128 /\ b <= 191

\* The UTF-16 code units of one decoded code point.
UnitsOfCodePoint(cp) ==
    IF cp < 65536 THEN << cp >>
    ELSE << 55296 + ((cp - 65536) \div 1024), 56320 + ((cp - 65536) % 1024) >>

\* Buffer.toString() (UTF-8): well-formed sequences become their code
\* point, any other byte becomes U+FFFD.
RECURSIVE Utf8Decode(_)
Utf8Decode(bytes) ==
    IF bytes = << >> THEN << >>
    ELSE LET b == Head(bytes)
             n == Len(bytes)
             cp2 == (b - 192) * 64 + (bytes[2] - 128)
             cp3 == (b - 224) * 4096 + (bytes[2] - 128) * 64 + (bytes[3] - 128)
             cp4 == (b - 240) * 262144 + (bytes[2] - 128) * 4096
                      + (bytes[3] - 128) * 64 + (bytes[4] - 128)
         IN  IF b < 128 THEN << b >> \o Utf8Decode(Tail(bytes))
             ELSE IF b >= 194 /\ b <= 223 /\ n >= 2 /\ IsContinuation(bytes[2])
             THEN << cp2 >> \o Utf8Decode(SubSeq(bytes, 3, n))
             ELSE IF b >= 224 /\ b <= 239 /\ n >= 3
                     /\ IsContinuation(bytes[2]) /\ IsContinuation(bytes[3])
                     /\ cp3 >= 2048 /\ ~(cp3 >= 55296 /\ cp3 <= 57343)
             THEN << cp3 >> \o Utf8Decode(SubSeq(bytes, 4, n))
             ELSE IF b >= 240 /\ b <= 244 /\ n >= 4
                     /\ IsContinuation(bytes[2]) /\ IsContinuation(bytes[3])
                     /\ IsContinuation(bytes[4])
                     /\ cp4 >= 65536 /\ cp4 <= 1114111
             THEN UnitsOfCodePoint(cp4) \o Utf8Decode(SubSeq(bytes, 5, n))
             ELSE << 65533 >> \o Utf8Decode(Tail(bytes))

\* The value of a hex digit, or -1 for any other character.
HexValue(c) ==
    IF \E k \in 1..16 : HexDigits[k] = c
    THEN (CHOOSE k \in 1..16 : HexDigits[k] = c) - 1
    ELSE -1

\* Buffer.from(text, 'hex'): bytes of the digit pairs up to the first pair
\* that is not two hex digits; a trailing single character is dropped.
RECURSIVE FromHex(_)
FromHex(chars) ==
    IF Len(chars) < 2 \/ HexValue(chars[1]) < 0 \/ HexValue(chars[2]) < 0
    THEN << >>
    ELSE << HexValue(chars[1]) * 16 + HexValue(chars[2]) >>
         \o FromHex(SubSeq(chars, 3, Len(chars)))

\* Position of the first ':' in the record, 0 if there is none.
FirstColon(chars) ==
    IF \E k \in 1..Len(chars) : chars[k] = ":"
    THEN CHOOSE k \in 1..Len(chars) :
             chars[k] = ":" /\ \A j \in 1..(k - 1) : chars[j] # ":"
    ELSE 0

\* The inverse of the block permutation under the same key.
BlockDec(c) == ((c + 256 - 113) * 205) % 256

\* CBC deciphering of the blocks after the block prev.
RECURSIVE CbcDec(_, _)
CbcDec(prev, blocks) ==
    IF blocks = << >> THEN << >>
    ELSE << (BlockDec(Head(blocks)) + 256 - prev) % 256 >>
         \o CbcDec(Head(blocks), Tail(blocks))

\* decrypted.toString('latin1'): every byte is one character.
Latin1Decode(bytes) == bytes

\* line 33: decrypted.toString()
BufferToString(bytes) == Utf8Decode(bytes)

\* What decrypt returns: the text, or a thrown error.
Decrypted(text) == [ok |-> TRUE, text |-> text]
DecryptThrows == [ok |-> FALSE, text |-> << >>]

\* decrypt(text), lines 23-34: split(':'), shift the iv part (throw when it
\* is empty), decode both parts from hex, decipher (createDecipheriv throws
\* on an iv that is not one block; final() throws on an empty ciphertext or
\* on padding that is not the pad length 1), toString().
Decrypt(chars) ==
    LET colon == FirstColon(chars)
        ivPart == IF colon = 0 THEN chars ELSE SubSeq(chars, 1, colon - 1)
        rest == IF colon = 0 THEN << >> ELSE SubSeq(chars, colon + 1, Len(chars))
        iv == FromHex(ivPart)
        encryptedText == FromHex(rest)
        padded == CbcDec(iv[1], encryptedText)
    IN  IF ivPart = << >> THEN DecryptThrows
        ELSE IF Len(iv) # 1 THEN DecryptThrows
        ELSE IF encryptedText = << >> THEN DecryptThrows
        ELSE IF padded[Len(padded)] # 1 THEN DecryptThrows
        ELSE Decrypted(BufferToString(SubSeq(padded, 1, Len(padded) - 1)))

\* encrypt(text) of a JavaScript string, with the iv randomBytes returned.
EncryptText(iv, units) == Encrypt(iv, Utf8Encode(units))

(***************************************************************************)
(* State.                                                                  *)
(***************************************************************************)
VARIABLES
    nextId,     \* number of session ids uuidv4() has produced in POST /connect
    proc,       \* proc[i]: the login script started with session id i
    jar,        \* jar[i]: the li_at cookie in the cookie jar of i's browser
    artifact,   \* artifact[i]: the file linkedin-session-<i>.json in tmpdir
    accounts,   \* rows of table linkedin_accounts, in insertion order
    resp,       \* the response of the most recent control call
    started,    \* history: how POST /connect ended for each generated id
    connectResp,\* history: the response POST /connect gave for each id
    delivered,  \* history: some GET for i has returned a non-waiting status
    consumed,   \* history: cookies of the success artifacts GET has unlinked
    writes,     \* history: artifacts the script has completely written
    observed,   \* history: li_at values the script's checks have found
    fp,         \* the run of scripts/fetch-posts.ts (fetchPosts)
    updates,    \* the div.feed-shared-update-v2 elements of the snapshot
    uniquePosts,\* the values of the Map uniquePosts, in insertion order
    postsFile,  \* the file data/posts.json
    synced,     \* urns whose upsert was sent to Supabase, in request order
    priorPosts, \* history: data/posts.json as the collection run found it
    fa,         \* the run of scripts/fetch-post-analytics.ts (fetchAnalytics)
    results,    \* the array results of the per-post loop
    enrichedFile,  \* the file data/posts_enriched.json
    faulted,    \* history: positions of targetPosts whose processing threw
    priorEnriched, \* history: data/posts_enriched.json as the run found it
    roundTrip,  \* a string given to encrypt, and what became of it
    client      \* the page Home of the browser: its state and its requests

\* The hand-off between the login script and the routes.
connectVars == << nextId, proc, jar, artifact, resp, started, connectResp,
                  delivered, consumed, writes, observed, client >>

\* fetch-posts.ts, fetch-post-analytics.ts, and a use of lib/encryption.
collectVars == << fp, updates, uniquePosts, synced, priorPosts >>
enrichVars == << fa, results, enrichedFile, faulted, priorEnriched >>
scripts == << collectVars, postsFile, enrichVars, roundTrip >>

vars == << nextId, proc, jar, artifact, accounts, resp, started, connectResp,
           delivered, consumed, writes, observed, scripts, client >>

history == << delivered, consumed, writes, observed >>

\* A file of tmpdir: absent, created and still empty (between the open and
\* the write of writeFileSync), or holding the JSON document.
Absent == [st |-> "absent", cookie |-> NoToken]
Empty == [st |-> "empty", cookie |-> NoToken]
SuccessDoc(v) == [st |-> "success", cookie |-> v]
TimeoutDoc == [st |-> "timeout", cookie |-> NoToken]

\* No process for this id.
NoProc == [pc |-> "none", elapsed |-> 0, browser |-> "none",
           li_at |-> NoToken, code |-> 0]

\* A response body; absent members are "" (strings) or NoSessionId.
Body(call, http, status, message, error, sessionId) ==
    [call |-> call, http |-> http, status |-> status,
     message |-> message, error |-> error, sessionId |-> sessionId]

NoResp == Body("none", 0, "", "", "", NoSessionId)

\* Most requests of the status route the page has in flight at a time.
MaxPolls == 2

\* Most clicks on "Start Connection" in the life of the page.
MaxStarts == 1

\* The page Home as it is rendered first (part_001 lines 97-98): status is
\* 'idle', sessionId null, no interval, no request.  timers holds the
\* session ids whose setInterval is active, post tells whether
\* startConnect awaits its fetch, starts counts the clicks, and polls[p] is
\* a run of the interval callback: free, sent (it awaits fetch) or fetched
\* (it awaits res.json() and holds the status of the body).
ClientIdle ==
    [status |-> "idle", sessionId |-> NoSessionId, timers |-> {}, post |-> "none",
     starts |-> 0,
     polls |-> [p \in 1..MaxPolls |->
                  [st |-> "free", sid |-> NoSessionId, status |-> ""]]]

\* e.message of an exception thrown by fs.openSync or spawn.
SpawnExceptionText == "spawn EACCES"

(***************************************************************************)
(* Values of the collection and enrichment scripts.  Strings are TLA+       *)
(* strings; Len, SubSeq and \o act on them character by character.         *)
(***************************************************************************)
\* fetch-posts.ts line 107.
TOTAL_SCROLLS == 50

\* fetch-posts.ts line 186: slice(0, 30).
WindowSize == 30

\* fetch-post-analytics.ts line 66: posts.slice(0, 5).
TargetLimit == 5

\* Longest run of elements that follows the distinct ones in a snapshot.
MaxTail == 3

\* Longest of the short reference lists data/posts.json is started with.
MaxRefs == 3

\* Longest string (in UTF-16 code units) given to encrypt.
MaxStrLen == 2

\* Number of whole seconds of CURRENT_TIMESTAMP the stored rows spread over.
MaxSeconds == 2

\* String.prototype.includes.
Includes(s, sub) ==
    \E i \in 1..(Len(s) - Len(sub) + 1) : SubSeq(s, i, i + Len(sub) - 1) = sub

\* s.split('?')[0]: the part before the first '?'.
BeforeQuery(s) ==
    IF \E i \in 1..Len(s) : SubSeq(s, i, i) = "?"
    THEN SubSeq(s, 1, (CHOOSE i \in 1..Len(s) :
                          /\ SubSeq(s, i, i) = "?"
                          /\ \A j \in 1..(i - 1) : SubSeq(s, j, j) # "?") - 1)
    ELSE s

\* String.prototype.trim, for the space character.
RECURSIVE Trim(_)
Trim(s) ==
    IF s = "" THEN s
    ELSE IF SubSeq(s, 1, 1) = " " THEN Trim(SubSeq(s, 2, Len(s)))
    ELSE IF SubSeq(s, Len(s), Len(s)) = " " THEN Trim(SubSeq(s, 1, Len(s) - 1))
    ELSE s

DecimalDigits == "0123456789"

\* The decimal numeral of a natural number (a template literal's ${k}).
RECURSIVE Numeral(_)
Numeral(k) ==
    IF k < 10 THEN SubSeq(DecimalDigits, k + 1, k + 1)
    ELSE Numeral(k \div 10) \o SubSeq(DecimalDigits, (k % 10) + 1, (k % 10) + 1)

\* The data-urn of the k-th post of the profile.
Urn(k) == "urn:li:activity:" \o Numeral(k)

\* A file of data/: absent, or holding a JSON array.
NoFile == [exists |-> FALSE, posts |-> << >>]
JsonFile(list) == [exists |-> TRUE, posts |-> list]

\* One div.feed-shared-update-v2 of the activity page, as the k-th element
\* of the snapshot: its data-urn ('' when the attribute is missing), the
\* href of its anchors in document order, and the text of its
\* sub-description cut at the bullets (no part: no such element).
Update(k, urn) ==
    [urn |-> urn,
     links |-> CASE k % 3 = 0 -> << >>
                 [] k % 3 = 1 ->
                        << "https://www.linkedin.com/in/me/",
                           "https://www.linkedin.com/posts/me_" \o Numeral(k)
                               \o "?trk=public_post" >>
                 [] OTHER ->
                        << "https://www.linkedin.com/feed/update/urn:li:activity:"
                               \o Numeral(k) \o "/" >>,
     sub |-> IF k % 4 = 0 THEN << >> ELSE << " " \o Numeral(k) \o "d ", " Edited" >>]

\* The urn of an element after the distinct ones: none, the first urn
\* again, or one of two urns not among the p distinct ones.
TailUrn(p, t) ==
    CASE t = 0 -> ""
      [] t = 1 -> Urn(1)
      [] OTHER -> Urn(p + t - 1)

\* A snapshot: p elements with the urns 1..p, then the elements of tail.
Dom(p, tail) ==
    [k \in 1..(p + Len(tail)) |->
        Update(k, IF k <= p THEN Urn(k) ELSE TailUrn(p, tail[k - p]))]

Tails == UNION { [1..n -> 0..3] : n \in 0..MaxTail }
PrefixLens == {0, WindowSize - 2, WindowSize - 1, WindowSize}
Doms == { Dom(p, tail) : p \in PrefixLens, tail \in Tails }

\* page.url() after the navigation to the feed.
PageUrls ==
    { "https://www.linkedin.com/feed/",
      "https://www.linkedin.com/uas/login?session_redirect=%2Ffeed%2F",
      "https://www.linkedin.com/signup/cold-join?source=guest_homepage",
      "about:blank" }

\* How page.goto of the feed ends: it returns, or throws this message.
GotoErrors ==
    { "", "net::ERR_TOO_MANY_REDIRECTS", "net::ERR_ABORTED",
      "Timeout 30000ms exceeded" }

\* An entry of data/posts.json: as a collection run writes the k-th post
\* (k > 0), or an entry that has neither postUrn nor url (k = 0; a member
\* that is missing reads as undefined, which is falsy like '').
Ref(k) ==
    IF k = 0
    THEN [postUrn |-> "", postUrl |-> "", posted_at |-> ""]
    ELSE [postUrn |-> Urn(k),
          postUrl |-> "https://www.linkedin.com/feed/update/" \o Urn(k) \o "/",
          posted_at |-> Numeral(k) \o "d"]

RefIds == 0..(MaxRefs + 1)

\* The lists data/posts.json may hold when a run starts: short lists of
\* distinct posts in any order, and lists around the limits of both scripts.
ShortLists ==
    UNION { { [i \in 1..n |-> Ref(f[i])] :
                f \in { g \in [1..n -> RefIds] :
                          \A a, b \in 1..n : a # b => g[a] # g[b] } } :
            n \in 0..MaxRefs }
LongLists ==
    { [i \in 1..n |-> Ref(i)] : n \in {TargetLimit, TargetLimit + 2, WindowSize} }
PostsFiles == {NoFile} \cup { JsonFile(l) : l \in ShortLists \cup LongLists }

\* What data/posts.json holds before a collection run.
PriorPostsFiles == { NoFile, JsonFile(<< Ref(WindowSize + 3) >>) }

\* An entry a previous enrichment run left in data/posts_enriched.json.
OldEntry ==
    [postUrn |-> Urn(WindowSize + 3),
     postUrl |-> "https://www.linkedin.com/feed/update/" \o Urn(WindowSize + 3) \o "/",
     posted_at |-> "3w", content |-> "old", imageUrl |-> "", likes |-> 1,
     comments |-> 0, reposts |-> 0, impressionsText |-> "7", date |-> "3w",
     impressions |-> 7]
PriorEnrichedFiles == { NoFile, JsonFile(<< OldEntry >>) }

\* A run at its first statement, and a script that is not run.
FpStart ==
    [pc |-> "start", browser |-> "none", li_at |-> NoToken, err |-> "",
     url |-> "about:blank", i |-> 0, exit |-> "none"]
FaStart ==
    [pc |-> "start", browser |-> "none", li_at |-> NoToken, err |-> "",
     targetPosts |-> << >>, k |-> 1, exit |-> "none"]
FpOff == [FpStart EXCEPT !.pc = "off"]
FaOff == [FaStart EXCEPT !.pc = "off"]

\* UTF-16 code units of the strings tried with encrypt: A, e-acute, the
\* euro sign, and the two surrogates of U+1F600.
CodeUnits == {65, 233, 8364, 55357, 56832}
Strings == UNION { [1..n -> CodeUnits] : n \in 0..MaxStrLen }
NoRoundTrip ==
    [pc |-> "off", s |-> << >>, iv |-> << >>, enc |-> << >>, dec |-> DecryptThrows]

\* The scripts have not run: no run state, no file of data/.
RunsIdle ==
    /\ fp = FpOff
    /\ updates = << >>
    /\ uniquePosts = << >>
    /\ postsFile = NoFile
    /\ synced = << >>
    /\ priorPosts = NoFile
    /\ fa = FaOff
    /\ results = << >>
    /\ enrichedFile = NoFile
    /\ faulted = {}
    /\ priorEnriched = NoFile

ScriptsIdle == RunsIdle /\ roundTrip = NoRoundTrip

Init ==
    /\ nextId = 0
    /\ proc = [i \in SessionIds |-> NoProc]
    /\ jar = [i \in SessionIds |-> NoToken]
    /\ artifact = [i \in SessionIds |-> Absent]
    /\ accounts = << >>
    /\ resp = NoResp
    /\ started = [i \in SessionIds |-> "unused"]
    /\ connectResp = [i \in SessionIds |-> NoResp]
    /\ delivered = [i \in SessionIds |-> FALSE]
    /\ consumed = [i \in SessionIds |-> {}]
    /\ writes = [i \in SessionIds |-> 0]
    /\ observed = [i \in SessionIds |-> {}]
    /\ client = ClientIdle
    /\ ScriptsIdle

(***************************************************************************)
(* POST /api/linkedin/connect  (connect/route.ts lines 8-55)               *)
(***************************************************************************)
ConnectOutcomes == {"scriptMissing", "spawnThrows", "noPid", "ok"}

\* The body POST returns for the id it generated, by how the spawn went.
ConnectBody(sid, outcome) ==
    CASE outcome = "scriptMissing" ->
             Body("connect", 500, "", "", "Script not found", NoSessionId)
      [] outcome = "spawnThrows" ->
             Body("connect", 500, "", "", SpawnExceptionText, NoSessionId)
      [] outcome = "noPid" ->
             Body("connect", 500, "", "", "Failed to spawn", NoSessionId)
      [] OTHER ->
             Body("connect", 200, "", "", "", sid)

\* The pid check of line 44 left out: a child without pid is unref'd and
\* its id returned.
POSTNoPidCheck(outcome) ==
    /\ nextId < MaxSessions
    /\ LET sid == nextId + 1
           body == IF outcome = "noPid" THEN ConnectBody(sid, "ok")
                   ELSE ConnectBody(sid, outcome)
       IN  /\ nextId' = sid
           /\ started' = [started EXCEPT ![sid] = outcome]
           /\ connectResp' = [connectResp EXCEPT ![sid] = body]
           /\ resp' = body
           /\ proc' = IF outcome = "ok"
                      THEN [proc EXCEPT ![sid] = [NoProc EXCEPT !.pc = "launch"]]
                      ELSE proc
    /\ UNCHANGED << client, scripts, jar, artifact, accounts, history >>

\* The whole handler.  Only a spawn that returned a pid leaves a process,
\* which begins at the script's chromium.launch.
POST(outcome) ==
    /\ nextId < MaxSessions
    /\ LET sid == nextId + 1
           body == ConnectBody(sid, outcome)
       IN  /\ nextId' = sid
           /\ started' = [started EXCEPT ![sid] = outcome]
           /\ connectResp' = [connectResp EXCEPT ![sid] = body]
           /\ resp' = body
           /\ proc' = IF outcome = "ok"
                      THEN [proc EXCEPT ![sid] = [NoProc EXCEPT !.pc = "launch"]]
                      ELSE proc
    /\ UNCHANGED << client, scripts, jar, artifact, accounts, history >>

(***************************************************************************)
(* scripts/linkedin-login.js  (part_001 lines 22-90), one process per id.  *)
(* pc names the statement the process is about to execute.                 *)
(***************************************************************************)
Min(a, b) == IF a < b THEN a ELSE b

\* while (true): the loop condition never ends the loop.
LoopForever(e) == "check"

\* line 41: while (Date.now() - startTime < TIMEOUT): where the process
\* goes when the loop condition is evaluated e ticks after startTime.
LoopTarget(e) == IF e < TimeoutTicks THEN "check" ELSE "timeoutOpen"

\* lines 24-39: chromium.launch, newContext/newPage, page.goto (in its own
\* try/catch: a failed navigation is logged and tolerated), startTime.
\* A throw of launch leaves no browser, a throw of newContext or newPage
\* leaves it open; both go to the catch of line 84.
Launch(i) ==
    /\ proc[i].pc = "launch"
    /\ \E outcome \in {"launchThrows", "contextThrows", "ok"} :
         proc' = [proc EXCEPT ![i] =
                    CASE outcome = "launchThrows" -> [@ EXCEPT !.pc = "fatal"]
                      [] outcome = "contextThrows" ->
                             [@ EXCEPT !.pc = "fatal", !.browser = "open"]
                      [] OTHER ->
                             [@ EXCEPT !.pc = LoopTarget(0), !.browser = "open",
                                       !.elapsed = 0]]
    /\ UNCHANGED << client, scripts, nextId, jar, artifact, accounts, resp, started,
                    connectResp, history >>

\* The user logs in through the headed browser: the platform sets li_at.
Login(i) ==
    /\ proc[i].pc = "check"
    /\ jar[i] = NoToken
    /\ \E v \in Tokens : jar' = [jar EXCEPT ![i] = v]
    /\ UNCHANGED << client, scripts, nextId, proc, artifact, accounts, resp, started,
                    connectResp, history >>

\* lines 42-46 and 66-74: one pass of the loop: context.cookies() and the
\* search for li_at.  If cookies() throws (caught at line 66) or the jar
\* holds no li_at, the process sleeps CHECK_INTERVAL (one tick) and
\* evaluates the loop condition again.
Check(i) ==
    /\ proc[i].pc = "check"
    /\ \E ok \in BOOLEAN :
         IF ok /\ jar[i] # NoToken
         THEN /\ proc' = [proc EXCEPT ![i].pc = "successOpen", ![i].li_at = jar[i]]
              /\ observed' = [observed EXCEPT ![i] = @ \cup {jar[i]}]
         ELSE /\ proc' = [proc EXCEPT ![i].elapsed = Min(@ + 1, TimeoutTicks),
                                      ![i].pc = LoopTarget(Min(proc[i].elapsed + 1,
                                                               TimeoutTicks))]
              /\ UNCHANGED observed
    /\ UNCHANGED << client, scripts, nextId, jar, artifact, accounts, resp, started, connectResp,
                    delivered, consumed, writes >>

\* line 53, first half of writeFileSync: the file is created or truncated.
SuccessOpen(i) ==
    /\ proc[i].pc = "successOpen"
    /\ artifact' = [artifact EXCEPT ![i] = Empty]
    /\ proc' = [proc EXCEPT ![i].pc = "successWrite"]
    /\ UNCHANGED << client, scripts, nextId, jar, accounts, resp, started, connectResp, history >>

\* line 53, second half: {status:'success', cookie: li_at.value} is written.
SuccessWrite(i) ==
    /\ proc[i].pc = "successWrite"
    /\ artifact' = [artifact EXCEPT ![i] = SuccessDoc(proc[i].li_at)]
    /\ writes' = [writes EXCEPT ![i] = @ + 1]
    /\ proc' = [proc EXCEPT ![i].pc = "stabilize"]
    /\ UNCHANGED << client, scripts, nextId, jar, accounts, resp, started, connectResp,
                    delivered, consumed, observed >>

\* lines 57-60: await page.waitForTimeout(5000); await browser.close();
\* process.exit(0).  All of it is inside the try of line 42: if the wait
\* throws, catch (checkErr) only logs, and the loop goes on with the sleep
\* of line 73 and the next evaluation of the loop condition.
Stabilize(i) ==
    /\ proc[i].pc = "stabilize"
    /\ \E ok \in BOOLEAN :
         proc' = [proc EXCEPT ![i] =
                    IF ok
                    THEN [@ EXCEPT !.pc = "exited", !.browser = "closed", !.code = 0]
                    ELSE [@ EXCEPT !.elapsed = Min(@ + 1, TimeoutTicks),
                                   !.pc = LoopTarget(Min(proc[i].elapsed + 1,
                                                         TimeoutTicks))]]
    /\ UNCHANGED << client, scripts, nextId, jar, artifact, accounts, resp, started,
                    connectResp, history >>

\* line 79, first half of writeFileSync.
TimeoutOpen(i) ==
    /\ proc[i].pc = "timeoutOpen"
    /\ artifact' = [artifact EXCEPT ![i] = Empty]
    /\ proc' = [proc EXCEPT ![i].pc = "timeoutWrite"]
    /\ UNCHANGED << client, scripts, nextId, jar, accounts, resp, started, connectResp, history >>

\* line 79, second half: {status:'timeout'} is written; then lines 81-82:
\* await browser.close(); process.exit(0).
TimeoutWrite(i) ==
    /\ proc[i].pc = "timeoutWrite"
    /\ artifact' = [artifact EXCEPT ![i] = TimeoutDoc]
    /\ writes' = [writes EXCEPT ![i] = @ + 1]
    /\ proc' = [proc EXCEPT ![i].pc = "exited", ![i].browser = "closed", ![i].code = 0]
    /\ UNCHANGED << client, scripts, nextId, jar, accounts, resp, started, connectResp,
                    delivered, consumed, observed >>

\* The catch of line 84 without its line 87.
FatalNoClose(b) == b

\* line 87: if (browser) await browser.close()
FatalClose(b) == IF b = "open" THEN "closed" ELSE b

\* lines 84-88: the outer catch: log, close the browser if there is one,
\* process.exit(1).  Nothing is written to the artifact.
Fatal(i) ==
    /\ proc[i].pc = "fatal"
    /\ proc' = [proc EXCEPT ![i].pc = "exited",
                            ![i].browser = FatalClose(@), ![i].code = 1]
    /\ UNCHANGED << client, scripts, nextId, jar, artifact, accounts, resp, started,
                    connectResp, history >>

Producer(i) ==
    \/ Launch(i) \/ Login(i) \/ Check(i)
    \/ SuccessOpen(i) \/ SuccessWrite(i) \/ Stabilize(i)
    \/ TimeoutOpen(i) \/ TimeoutWrite(i)
    \/ Fatal(i)

(***************************************************************************)
(* GET /api/linkedin/status  (status/route.ts lines 9-59)                  *)
(***************************************************************************)
\* A row of linkedin_accounts (lines 32-42): id is a fresh uuid, user_id is
\* hard-coded, li_at_encrypted is encrypt(cookie).  sid is a history field
\* (not a column): the session whose artifact the row came from.
AccountRow(n, sid, iv, cookie) ==
    [id |-> n, user_id |-> "demo-user", li_at_encrypted |-> Encrypt(iv, cookie),
     sid |-> sid]

\* The row is in the table although the statement was reported as failed.
InsertDespiteFailure(ok, rows, row) == Append(rows, row)

\* INSERT OR REPLACE keyed on user_id instead of the plain INSERT: a second
\* connect of the same user overwrites the stored row.
InsertReplacing(ok, rows, row) ==
    IF ~ok THEN rows
    ELSE IF \E n \in DOMAIN rows : rows[n].user_id = row.user_id
    THEN [n \in DOMAIN rows |-> IF rows[n].user_id = row.user_id THEN row ELSE rows[n]]
    ELSE Append(rows, row)

\* insertQuery.run (line 42): the row is in the table iff encrypt and the
\* INSERT did not throw.
Insert(ok, rows, row) == IF ok THEN Append(rows, row) ELSE rows

\* lines 44-48: what the success branch answers.
SaveBody(ok) ==
    IF ok THEN Body("status", 200, "connected", "", "", NoSessionId)
    ELSE Body("status", 500, "error", "Failed to save account", "", NoSessionId)

\* The cleanup of line 25 removes every linkedin-session-*.json of tmpdir,
\* not only the one of the polled id.
GETSweep(sid) ==
    IF sid = NoSessionId
    THEN \* lines 13-15
         /\ resp' = Body("status", 400, "", "", "Session ID is required", NoSessionId)
         /\ UNCHANGED << client, scripts, nextId, proc, jar, artifact, accounts, started,
                         connectResp, history >>
    ELSE IF artifact[sid].st = "absent"
    THEN \* lines 56-58: existsSync is false
         /\ resp' = Body("status", 200, "waiting", "", "", NoSessionId)
         /\ UNCHANGED << client, scripts, nextId, proc, jar, artifact, accounts, started,
                         connectResp, history >>
    ELSE IF artifact[sid].st = "empty"
    THEN \* lines 21-22 and 52-55: JSON.parse('') throws before the unlink
         /\ resp' = Body("status", 500, "error", "Failed to read session data",
                         "", NoSessionId)
         /\ delivered' = [delivered EXCEPT ![sid] = TRUE]
         /\ UNCHANGED << client, scripts, nextId, proc, jar, artifact, accounts, started, connectResp,
                         consumed, writes, observed >>
    ELSE \* line 25: the artifact is read, parsed and unlinked
         /\ artifact' = [i \in SessionIds |-> Absent]
         /\ delivered' = [delivered EXCEPT ![sid] = TRUE]
         /\ IF artifact[sid].st = "success"
            THEN \* lines 27-48
                 /\ \E ok \in BOOLEAN, iv \in IVs :
                      /\ accounts' = Insert(ok, accounts,
                                            AccountRow(Len(accounts) + 1, sid, iv,
                                                       artifact[sid].cookie))
                      /\ resp' = SaveBody(ok)
                 /\ consumed' = [consumed EXCEPT ![sid] = @ \cup {artifact[sid].cookie}]
            ELSE \* lines 49-51: the parsed document is the response
                 /\ resp' = Body("status", 200, artifact[sid].st, "", "", NoSessionId)
                 /\ UNCHANGED << accounts, consumed >>
         /\ UNCHANGED << client, scripts, nextId, proc, jar, started, connectResp, writes, observed >>

GET(sid) ==
    IF sid = NoSessionId
    THEN \* lines 13-15
         /\ resp' = Body("status", 400, "", "", "Session ID is required", NoSessionId)
         /\ UNCHANGED << client, scripts, nextId, proc, jar, artifact, accounts, started,
                         connectResp, history >>
    ELSE IF artifact[sid].st = "absent"
    THEN \* lines 56-58: existsSync is false
         /\ resp' = Body("status", 200, "waiting", "", "", NoSessionId)
         /\ UNCHANGED << client, scripts, nextId, proc, jar, artifact, accounts, started,
                         connectResp, history >>
    ELSE IF artifact[sid].st = "empty"
    THEN \* lines 21-22 and 52-55: JSON.parse('') throws before the unlink
         /\ resp' = Body("status", 500, "error", "Failed to read session data",
                         "", NoSessionId)
         /\ delivered' = [delivered EXCEPT ![sid] = TRUE]
         /\ UNCHANGED << client, scripts, nextId, proc, jar, artifact, accounts, started, connectResp,
                         consumed, writes, observed >>
    ELSE \* line 25: the artifact is read, parsed and unlinked
         /\ artifact' = [artifact EXCEPT ![sid] = Absent]
         /\ delivered' = [delivered EXCEPT ![sid] = TRUE]
         /\ IF artifact[sid].st = "success"
            THEN \* lines 27-48
                 /\ \E ok \in BOOLEAN, iv \in IVs :
                      /\ accounts' = Insert(ok, accounts,
                                            AccountRow(Len(accounts) + 1, sid, iv,
                                                       artifact[sid].cookie))
                      /\ resp' = SaveBody(ok)
                 /\ consumed' = [consumed EXCEPT ![sid] = @ \cup {artifact[sid].cookie}]
            ELSE \* lines 49-51: the parsed document is the response
                 /\ resp' = Body("status", 200, artifact[sid].st, "", "", NoSessionId)
                 /\ UNCHANGED << accounts, consumed >>
         /\ UNCHANGED << client, scripts, nextId, proc, jar, started, connectResp, writes, observed >>

(***************************************************************************)
(* The page Home (part_001 lines 96-151): startConnect and the interval    *)
(* callback of pollStatus.  A request that was sent and not yet fetched is *)
(* at the server, which handles one request at a time (neither handler     *)
(* awaits); resp is NoResp until the server has handled it.                *)
(***************************************************************************)
\* lines 104-125: startConnect.  The click (the button is disabled while
\* status is 'waiting' or 'starting') sets status 'starting' and sends the
\* POST.  When fetch has settled: with res.ok the page stores the session
\* id, sets status 'waiting' and starts the interval of pollStatus; with a
\* response that is not ok, or a throw of fetch, it sets status 'error'.
StartConnect ==
    /\ IF client.post = "none"
       THEN /\ client.status \notin {"waiting", "starting"}
            /\ client.starts < MaxStarts
            /\ \A p \in 1..MaxPolls : client.polls[p].st # "sent"
            /\ client' = [client EXCEPT !.status = "starting", !.post = "sent",
                                        !.starts = @ + 1]
            /\ resp' = NoResp
       ELSE /\ \/ /\ resp.call = "connect"
                  /\ client' = IF resp.http = 200
                               THEN [client EXCEPT !.post = "none",
                                                   !.sessionId = resp.sessionId,
                                                   !.status = "waiting",
                                                   !.timers = @ \cup {resp.sessionId}]
                               ELSE [client EXCEPT !.post = "none", !.status = "error"]
               \/ client' = [client EXCEPT !.post = "none", !.status = "error"]
            /\ UNCHANGED resp
    /\ UNCHANGED << scripts, nextId, proc, jar, artifact, accounts, started,
                    connectResp, history >>

\* lines 129-131: the interval of session sid fires and its callback sends
\* a GET for sid.
PollTick(sid) ==
    /\ sid \in client.timers
    /\ client.post = "none"
    /\ \A p \in 1..MaxPolls : client.polls[p].st # "sent"
    /\ \E p \in 1..MaxPolls :
         /\ client.polls[p].st = "free"
         /\ \A q \in 1..(p - 1) : client.polls[q].st # "free"
         /\ client' = [client EXCEPT !.polls[p] =
                          [st |-> "sent", sid |-> sid, status |-> ""]]
    /\ resp' = NoResp
    /\ UNCHANGED << scripts, nextId, proc, jar, artifact, accounts, started,
                    connectResp, history >>

\* The server handles the request that is at it: the POST of startConnect
\* or the GET of a callback.
Serve ==
    /\ resp = NoResp
    /\ \/ client.post = "sent" /\ \E outcome \in ConnectOutcomes : POST(outcome)
       \/ \E p \in 1..MaxPolls :
            client.polls[p].st = "sent" /\ GET(client.polls[p].sid)

\* lines 131 and 147-149: the fetch of callback p settles: the response is
\* there, or fetch throws and the catch ignores it (the interval stays).
PollFetched(p) ==
    /\ client.polls[p].st = "sent"
    /\ \/ /\ resp.call = "status"
          /\ client' = [client EXCEPT !.polls[p].st = "fetched",
                                      !.polls[p].status = resp.status]
       \/ client' = [client EXCEPT !.polls[p] = ClientIdle.polls[p]]
    /\ UNCHANGED << scripts, nextId, proc, jar, artifact, accounts, resp, started,
                    connectResp, history >>

\* lines 132-146: res.json() of callback p has settled.  On 'success' or
\* 'connected' the callback clears its interval and sets status 'success';
\* on 'waiting' it does nothing; on anything else it clears its interval
\* and sets status 'error'.
PollHandled(p) ==
    /\ client.polls[p].st = "fetched"
    /\ LET poll == client.polls[p]
           done == [client EXCEPT !.polls[p] = ClientIdle.polls[p]]
       IN  client' =
             IF poll.status \in {"success", "connected"}
             THEN [done EXCEPT !.timers = @ \ {poll.sid}, !.status = "success"]
             ELSE IF poll.status = "waiting" THEN done
             ELSE [done EXCEPT !.timers = @ \ {poll.sid}, !.status = "error"]
    /\ UNCHANGED << scripts, nextId, proc, jar, artifact, accounts, resp, started,
                    connectResp, history >>

(***************************************************************************)
(* scripts/fetch-posts.ts  (fetchPosts, lines 38-253).                     *)
(* fp.pc names the statement the run is about to execute.                  *)
(***************************************************************************)
\* lib/db lines 51-59: created_at DATETIME DEFAULT CURRENT_TIMESTAMP.  The
\* INSERT of the status route names no created_at, so the column holds the
\* whole second in which the row was inserted.
Stamped(row, second) ==
    [id |-> row.id, user_id |-> row.user_id, li_at_encrypted |-> row.li_at_encrypted,
     sid |-> row.sid, created_at |-> second]

\* The table linkedin_accounts when a script starts: no row, a row the
\* status route inserted, or a row whose ciphertext does not decipher to
\* valid padding under the current SECRET_KEY (it was written under
\* another key).
ForeignRow ==
    [id |-> 1, user_id |-> "demo-user",
     li_at_encrypted |-> ToHex(<< 7 >>) \o <<":">> \o ToHex(Cbc(7, << 65, 2 >>)),
     sid |-> 1, created_at |-> 1]
AccountStores ==
    { << >>, << ForeignRow >>,
      << Stamped(AccountRow(1, 1, CHOOSE iv \in IVs : TRUE, CHOOSE v \in Tokens : TRUE), 1) >> }

\* The table after two connects with different tokens, in insertion order
\* (the first row was inserted at T1, the second at T2 > T1): the two
\* inserts fall in the same second or in different seconds.
TwoAccountStores ==
    { << Stamped(AccountRow(1, 1, iv1, v1), t1), Stamped(AccountRow(2, 2, iv2, v2), t2) >> :
        << iv1, v1, t1, iv2, v2, t2 >> \in
            { q \in IVs \X Tokens \X (1..MaxSeconds) \X IVs \X Tokens \X (1..MaxSeconds) :
                q[2] # q[5] /\ q[3] <= q[6] } }

\* The rows SELECT ... ORDER BY created_at DESC LIMIT 1 may return (both
\* scripts): a row with the greatest created_at; the statement names no
\* further sort key, so among rows of the same second SQLite may return any.
LatestAccount(rows) ==
    { rows[k] : k \in { j \in 1..Len(rows) :
                          \A i \in 1..Len(rows) : rows[i].created_at <= rows[j].created_at } }

\* The catch of a decrypt error left out: the run goes on.
DecryptOkAlways(r) == TRUE

\* decrypt(account.li_at_encrypted) returned (it did not throw).
DecryptOk(r) == r.ok

\* lines 42-55: the imports, the SELECT and decrypt.  Without a row the run
\* returns; a throw of decrypt goes to the catch of line 247.
FetchAccount ==
    /\ fp.pc = "start"
    /\ IF accounts = << >>
       THEN fp' = [fp EXCEPT !.pc = "done", !.exit = "noAccount"]
       ELSE \E account \in LatestAccount(accounts) :
              LET r == Decrypt(account.li_at_encrypted)
              IN  IF DecryptOk(r)
                  THEN fp' = [fp EXCEPT !.pc = "launch", !.li_at = r.text]
                  ELSE fp' = [fp EXCEPT !.pc = "fatal", !.err = "decrypt"]
    /\ UNCHANGED << connectVars, accounts, updates, uniquePosts, postsFile, synced,
                    priorPosts, enrichVars, roundTrip >>

\* lines 58-69: chromium.launch, newContext, addCookies, newPage.  A throw
\* of launch leaves no browser; a throw of the others leaves it open.
LaunchBrowser ==
    /\ fp.pc = "launch"
    /\ \E outcome \in {"launchThrows", "contextThrows", "ok"} :
         fp' = CASE outcome = "launchThrows" ->
                        [fp EXCEPT !.pc = "fatal", !.err = "launch"]
                 [] outcome = "contextThrows" ->
                        [fp EXCEPT !.pc = "fatal", !.err = "context",
                                   !.browser = "open"]
                 [] OTHER -> [fp EXCEPT !.pc = "feed", !.browser = "open"]
    /\ UNCHANGED << connectVars, accounts, updates, uniquePosts, postsFile, synced,
                    priorPosts, enrichVars, roundTrip >>

\* lines 76-80: the errors of the feed navigation that end the run.
IsRedirectError(e) ==
    Includes(e, "ERR_TOO_MANY_REDIRECTS") \/ Includes(e, "ERR_ABORTED")

\* lines 73-82: page.goto of the feed in its own try/catch.  On a redirect
\* or abort error the browser is closed and the run returns; any other
\* error is swallowed and the run goes on with the page as it is.
GotoFeed ==
    /\ fp.pc = "feed"
    /\ \E e \in GotoErrors, u \in PageUrls :
         /\ e = "" => u # "about:blank"
         /\ fp' = IF IsRedirectError(e)
                  THEN [fp EXCEPT !.pc = "done", !.exit = "cookieInvalid",
                                  !.err = e, !.browser = "closed"]
                  ELSE [fp EXCEPT !.pc = "validate", !.err = e, !.url = u]
    /\ UNCHANGED << connectVars, accounts, updates, uniquePosts, postsFile, synced,
                    priorPosts, enrichVars, roundTrip >>

\* The test of line 85 with its second marker left out.
RedirectedLoginOnly(url) == Includes(url, "login")

\* line 85: currentUrl.includes('login') || currentUrl.includes('guest')
Redirected(url) == Includes(url, "login") \/ Includes(url, "guest")

\* lines 84-89: on a login or guest URL the browser is closed and the run
\* returns.
ValidateSession ==
    /\ fp.pc = "validate"
    /\ fp' = IF Redirected(fp.url)
             THEN [fp EXCEPT !.pc = "done", !.exit = "sessionInvalid",
                             !.browser = "closed"]
             ELSE [fp EXCEPT !.pc = "activity"]
    /\ UNCHANGED << connectVars, accounts, updates, uniquePosts, postsFile, synced,
                    priorPosts, enrichVars, roundTrip >>

\* lines 92-102: page.goto of the activity page (a throw is fatal), the
\* tolerated waitForSelector, waitForTimeout.
GotoActivity ==
    /\ fp.pc = "activity"
    /\ \E ok \in BOOLEAN :
         fp' = IF ok THEN [fp EXCEPT !.pc = "scroll", !.i = 0]
               ELSE [fp EXCEPT !.pc = "fatal", !.err = "activity"]
    /\ UNCHANGED << connectVars, accounts, updates, uniquePosts, postsFile, synced,
                    priorPosts, enrichVars, roundTrip >>

\* The loop leaves early: after any pass it may go on to the extraction
\* (scrolling until no new post is loaded instead of a fixed count).
ScrollUntilLoaded ==
    /\ fp.pc = "scroll"
    /\ IF fp.i < TOTAL_SCROLLS
       THEN \/ \E ok \in BOOLEAN :
                 fp' = IF ok THEN [fp EXCEPT !.i = @ + 1]
                       ELSE [fp EXCEPT !.pc = "fatal", !.err = "scroll"]
            \/ fp.i > 0 /\ fp' = [fp EXCEPT !.pc = "extract"]
       ELSE fp' = [fp EXCEPT !.pc = "extract"]
    /\ UNCHANGED << connectVars, accounts, updates, uniquePosts, postsFile, synced,
                    priorPosts, enrichVars, roundTrip >>

\* lines 110-120: one pass of for (let i = 0; i < TOTAL_SCROLLS; i++):
\* scrollBy, waitForTimeout, the count of loaded posts; the loop is left
\* when i reaches TOTAL_SCROLLS.  A throw of page.evaluate is fatal.
Scroll ==
    /\ fp.pc = "scroll"
    /\ IF fp.i < TOTAL_SCROLLS
       THEN \E ok \in BOOLEAN :
              fp' = IF ok THEN [fp EXCEPT !.i = @ + 1]
                    ELSE [fp EXCEPT !.pc = "fatal", !.err = "scroll"]
       ELSE fp' = [fp EXCEPT !.pc = "extract"]
    /\ UNCHANGED << connectVars, accounts, updates, uniquePosts, postsFile, synced,
                    priorPosts, enrichVars, roundTrip >>

\* lines 136-137: the anchors whose href names a post.
IsPostLink(href) ==
    Includes(href, "/feed/update/urn:li:activity:") \/ Includes(href, "/posts/")

\* lines 133-144: the href of the first such anchor up to its query, or
\* else the URL made from the urn.
PostUrlOf(el) ==
    LET found == { i \in 1..Len(el.links) : IsPostLink(el.links[i]) }
        first == CHOOSE i \in found : \A j \in found : i <= j
        postUrl == IF found = {} THEN "" ELSE BeforeQuery(el.links[first])
    IN  IF postUrl = ""
        THEN "https://www.linkedin.com/feed/update/" \o el.urn \o "/"
        ELSE postUrl

\* lines 148-156: the text of the sub-description before its first bullet,
\* trimmed; '' without a sub-description.
TimeTextOf(el) == IF el.sub = << >> THEN "" ELSE Trim(el.sub[1])

\* lines 126-161: what page.evaluate returns for the elements of the
\* snapshot: an element without data-urn yields nothing.
RECURSIVE Extracted(_)
Extracted(els) ==
    IF els = << >> THEN << >>
    ELSE IF Head(els).urn = "" THEN Extracted(Tail(els))
    ELSE << [postUrn |-> Head(els).urn, postUrl |-> PostUrlOf(Head(els)),
             timeText |-> TimeTextOf(Head(els))] >>
         \o Extracted(Tail(els))

\* lines 179-183: the entry stored for an extracted item.
Stored(item) ==
    [postUrn |-> item.postUrn, postUrl |-> item.postUrl, posted_at |-> item.timeText]

\* The loop of lines 172-184 without the test of line 174: Map.set on a key
\* that is present replaces its value and keeps its place.
RECURSIVE SetAll(_, _)
SetAll(acc, items) ==
    IF items = << >> THEN acc
    ELSE LET item == Head(items)
             at == { j \in 1..Len(acc) : acc[j].postUrn = item.postUrn }
         IN  IF item.postUrn = "" THEN SetAll(acc, Tail(items))
             ELSE IF at # {}
             THEN SetAll([acc EXCEPT ![CHOOSE j \in at : TRUE] = Stored(item)],
                         Tail(items))
             ELSE SetAll(Append(acc, Stored(item)), Tail(items))

DedupOverwrite(items) == SetAll(<< >>, items)

\* lines 172-184: the values of uniquePosts after the loop over items that
\* started with the values acc.
RECURSIVE DedupInto(_, _)
DedupInto(acc, items) ==
    IF items = << >> THEN acc
    ELSE LET item == Head(items)
         IN  IF item.postUrn = "" THEN DedupInto(acc, Tail(items))
             ELSE IF \E j \in 1..Len(acc) : acc[j].postUrn = item.postUrn
             THEN DedupInto(acc, Tail(items))
             ELSE DedupInto(Append(acc, Stored(item)), Tail(items))

\* lines 170-184: Array.from(uniquePosts.values()).
Dedup(items) == DedupInto(<< >>, items)

\* Line 186 without its slice.
WindowAll(list) == list

\* line 186: .slice(0, 30)
Window(list) == SubSeq(list, 1, Min(Len(list), WindowSize))

\* lines 125-163: the snapshot of the DOM after the last scroll step.  A
\* throw of page.evaluate is fatal.
Snapshot ==
    /\ fp.pc = "extract"
    /\ \/ \E d \in Doms :
            /\ updates' = d
            /\ fp' = [fp EXCEPT !.pc = "dedup"]
       \/ /\ fp' = [fp EXCEPT !.pc = "fatal", !.err = "extract"]
          /\ UNCHANGED updates
    /\ UNCHANGED << connectVars, accounts, uniquePosts, postsFile, synced,
                    priorPosts, enrichVars, roundTrip >>

\* lines 170-184.
Deduplicate ==
    /\ fp.pc = "dedup"
    /\ uniquePosts' = Dedup(Extracted(updates))
    /\ fp' = [fp EXCEPT !.pc = "save"]
    /\ UNCHANGED << connectVars, accounts, updates, postsFile, synced,
                    priorPosts, enrichVars, roundTrip >>

\* The run's window is added to the entries the file already holds
\* (an incremental merge instead of the overwrite).
SavePostsMerging ==
    /\ fp.pc = "save"
    /\ \E ok \in BOOLEAN :
         IF ok
         THEN /\ postsFile' = JsonFile(postsFile.posts \o Window(uniquePosts))
              /\ fp' = [fp EXCEPT !.pc = "sync"]
         ELSE /\ fp' = [fp EXCEPT !.pc = "fatal", !.err = "save"]
              /\ UNCHANGED postsFile
    /\ UNCHANGED << connectVars, accounts, updates, uniquePosts, synced,
                    priorPosts, enrichVars, roundTrip >>

\* lines 186-194: allPosts is written to data/posts.json; a throw of mkdirSync
\* or writeFileSync is fatal.
SavePosts ==
    /\ fp.pc = "save"
    /\ \E ok \in BOOLEAN :
         IF ok
         THEN /\ postsFile' = JsonFile(Window(uniquePosts))
              /\ fp' = [fp EXCEPT !.pc = "sync"]
         ELSE /\ fp' = [fp EXCEPT !.pc = "fatal", !.err = "save"]
              /\ UNCHANGED postsFile
    /\ UNCHANGED << connectVars, accounts, updates, uniquePosts, synced,
                    priorPosts, enrichVars, roundTrip >>

\* lines 197-242: with both environment variables set, a DELETE and a POST
\* are sent for every post of allPosts, each in its own try/catch.
SyncPosts ==
    /\ fp.pc = "sync"
    /\ \E envSet \in BOOLEAN :
         synced' = IF envSet
                   THEN [j \in 1..Len(Window(uniquePosts)) |->
                            Window(uniquePosts)[j].postUrn]
                   ELSE << >>
    /\ fp' = [fp EXCEPT !.pc = "close"]
    /\ UNCHANGED << connectVars, accounts, updates, uniquePosts, postsFile,
                    priorPosts, enrichVars, roundTrip >>

\* lines 244-245: await browser.close().
CloseBrowser ==
    /\ fp.pc = "close"
    /\ fp' = [fp EXCEPT !.pc = "done", !.exit = "ok", !.browser = "closed"]
    /\ UNCHANGED << connectVars, accounts, updates, uniquePosts, postsFile, synced,
                    priorPosts, enrichVars, roundTrip >>

\* lines 247-252: the outer catch logs the error and its stack; the run
\* ends.  browser is a const of the try block and is not in scope here.
CollectFatal ==
    /\ fp.pc = "fatal"
    /\ fp' = [fp EXCEPT !.pc = "done", !.exit = "fatal"]
    /\ UNCHANGED << connectVars, accounts, updates, uniquePosts, postsFile, synced,
                    priorPosts, enrichVars, roundTrip >>

\* The connect flow at rest.
HandoffIdle ==
    /\ nextId = 0
    /\ proc = [i \in SessionIds |-> NoProc]
    /\ jar = [i \in SessionIds |-> NoToken]
    /\ artifact = [i \in SessionIds |-> Absent]
    /\ resp = NoResp
    /\ started = [i \in SessionIds |-> "unused"]
    /\ connectResp = [i \in SessionIds |-> NoResp]
    /\ delivered = [i \in SessionIds |-> FALSE]
    /\ consumed = [i \in SessionIds |-> {}]
    /\ writes = [i \in SessionIds |-> 0]
    /\ observed = [i \in SessionIds |-> {}]
    /\ client = ClientIdle

\* A collection run is started on any account table and any earlier
\* data/posts.json.
InitCollect ==
    /\ HandoffIdle
    /\ accounts \in AccountStores
    /\ fp = FpStart
    /\ updates = << >>
    /\ uniquePosts = << >>
    /\ postsFile \in PriorPostsFiles
    /\ priorPosts = postsFile
    /\ synced = << >>
    /\ fa = FaOff
    /\ results = << >>
    /\ enrichedFile = NoFile
    /\ faulted = {}
    /\ priorEnriched = NoFile
    /\ roundTrip = NoRoundTrip

NextCollect ==
    \/ FetchAccount
    \/ LaunchBrowser
    \/ GotoFeed
    \/ ValidateSession
    \/ GotoActivity
    \/ Scroll
    \/ Snapshot
    \/ Deduplicate
    \/ SavePosts
    \/ SyncPosts
    \/ CloseBrowser
    \/ CollectFatal

(***************************************************************************)
(* scripts/fetch-post-analytics.ts  (fetchAnalytics, lines 49-260).        *)
(* fa.pc names the statement the run is about to execute.                  *)
(***************************************************************************)
\* The last decimal digit of a urn.
LastDigit(urn) ==
    (CHOOSE d \in 1..10 :
        SubSeq(DecimalDigits, d, d) = SubSeq(urn, Len(urn), Len(urn))) - 1

\* String.prototype.toLowerCase of one character and of a string, for the
\* letters of the alphabet.
LowerChar(c) ==
    IF \E k \in 1..26 : SubSeq("ABCDEFGHIJKLMNOPQRSTUVWXYZ", k, k) = c
    THEN SubSeq("abcdefghijklmnopqrstuvwxyz",
                CHOOSE k \in 1..26 : SubSeq("ABCDEFGHIJKLMNOPQRSTUVWXYZ", k, k) = c,
                CHOOSE k \in 1..26 : SubSeq("ABCDEFGHIJKLMNOPQRSTUVWXYZ", k, k) = c)
    ELSE c
RECURSIVE Lower(_)
Lower(s) ==
    IF s = "" THEN "" ELSE LowerChar(SubSeq(s, 1, 1)) \o Lower(SubSeq(s, 2, Len(s)))

\* The character class [0-9,] and the class \s (the space character).
IsDigitOrComma(s, i) == i >= 1 /\ i <= Len(s) /\ Includes("0123456789,", SubSeq(s, i, i))
RECURSIVE RunEnd(_, _)
RunEnd(s, i) == IF IsDigitOrComma(s, i + 1) THEN RunEnd(s, i + 1) ELSE i
RECURSIVE SkipSpaces(_, _)
SkipSpaces(s, i) ==
    IF i <= Len(s) /\ SubSeq(s, i, i) = " " THEN SkipSpaces(s, i + 1) ELSE i
StartsAt(s, i, w) == SubSeq(s, i, i + Len(w) - 1) = w

\* The rest of the pattern, (w1|w2|..)?\s*impressions, matches t at q.
RestAt(t, q, words) ==
    \/ StartsAt(t, q, "impressions")
    \/ \E w \in words :
         StartsAt(t, q, w) /\ StartsAt(t, SkipSpaces(t, q + Len(w)), "impressions")

\* The places of t where the pattern matches: the start of a run of digits
\* and commas that is followed by \s* and the rest of the pattern.
MatchStarts(t, words) ==
    { i \in 1..Len(t) :
        /\ IsDigitOrComma(t, i)
        /\ ~IsDigitOrComma(t, i - 1)
        /\ RestAt(t, SkipSpaces(t, RunEnd(t, i) + 1), words) }

\* The match at the leftmost of the places, with its group 1.
MatchAt(text, starts) ==
    IF starts = {} THEN [found |-> FALSE, text |-> ""]
    ELSE [found |-> TRUE,
          text |-> SubSeq(text, CHOOSE i \in starts : \A k \in starts : i <= k,
                          RunEnd(text, CHOOSE i \in starts : \A k \in starts : i <= k))]

\* text.match(/([0-9,]+)\s*(w1|w2|..)?\s*impressions/i) for the optional
\* words given (none for the pattern of line 212): whether it matches, and
\* its group 1.
MatchImpressions(text, words) == MatchAt(text, MatchStarts(Lower(text), words))

\* A span whose text includes 'impressions' (line 186): whether it lies in
\* .feed-shared-update-v2 or main, and the innerText of its parent.
Span(inMain, parentText) == [inMain |-> inMain, parentText |-> parentText]

\* lines 192-206, tier 1: the first span inside the post container whose
\* parent names post or organic impressions and matches the pattern.
RECURSIVE Tier1(_)
Tier1(spans) ==
    IF spans = << >> THEN [found |-> FALSE, text |-> ""]
    ELSE IF /\ Head(spans).inMain
            /\ \/ Includes(Head(spans).parentText, "post impressions")
               \/ Includes(Head(spans).parentText, "organic impressions")
            /\ MatchImpressions(Head(spans).parentText, {"post", "organic"}).found
    THEN MatchImpressions(Head(spans).parentText, {"post", "organic"})
    ELSE Tier1(Tail(spans))

\* lines 211-221, tier 2: the first span of the document whose parent names
\* neither search appearances nor profile views and matches the pattern.
RECURSIVE Tier2(_)
Tier2(spans) ==
    IF spans = << >> THEN [found |-> FALSE, text |-> ""]
    ELSE IF /\ ~Includes(Lower(Head(spans).parentText), "search appearance")
            /\ ~Includes(Lower(Head(spans).parentText), "profile view")
            /\ MatchImpressions(Head(spans).parentText, {}).found
    THEN MatchImpressions(Head(spans).parentText, {})
    ELSE Tier2(Tail(spans))

\* line 209: if (res.impressionsText === '0' && impressionSpans.length > 0)
Tier2Entered(impressionsText, spans) == impressionsText = "0" /\ spans # << >>

\* lines 209-222: impressionsText after tier 1 is set by tier 2 when that is
\* entered and matches.
AfterTier1(impressionsText, spans) ==
    IF Tier2Entered(impressionsText, spans) /\ Tier2(spans).found
    THEN Tier2(spans).text
    ELSE impressionsText

\* lines 127 and 185-222: the impressionsText page.evaluate returns: it
\* starts as '0' and is set by the match of tier 1, then by tier 2.
ImpressionsText(spans) ==
    AfterTier1(IF Tier1(spans).found THEN Tier1(spans).text ELSE "0", spans)

\* text.replace(/[^0-9]/g, '')
RECURSIVE DigitsOf(_)
DigitsOf(text) ==
    IF text = "" THEN ""
    ELSE IF Includes(DecimalDigits, SubSeq(text, 1, 1))
    THEN SubSeq(text, 1, 1) \o DigitsOf(SubSeq(text, 2, Len(text)))
    ELSE DigitsOf(SubSeq(text, 2, Len(text)))

\* parseInt(digits, 10) of a non-empty string of digits.
RECURSIVE DecimalValue(_)
DecimalValue(digits) ==
    IF digits = "" THEN 0
    ELSE DecimalValue(SubSeq(digits, 1, Len(digits) - 1)) * 10
         + LastDigit(digits)

\* parseInt without the replace: the digits up to the first other character.
RECURSIVE LeadingDigits(_)
LeadingDigits(text) ==
    IF text = "" \/ ~Includes(DecimalDigits, SubSeq(text, 1, 1)) THEN ""
    ELSE SubSeq(text, 1, 1) \o LeadingDigits(SubSeq(text, 2, Len(text)))
ParseLeading(text) ==
    IF LeadingDigits(text) = "" THEN 0 ELSE DecimalValue(LeadingDigits(text))

\* parseInt(text.replace(/[^0-9]/g, ''), 10) || 0  (lines 227 and 247)
ParseCount(text) ==
    IF DigitsOf(text) = "" THEN 0 ELSE DecimalValue(DigitsOf(text))

\* An element of the page that may be absent, with its text.
NoElement == [present |-> FALSE, parts |-> << >>]
Element(parts) == [present |-> TRUE, parts |-> parts]

\* The page of a post, as far as page.evaluate reads it: the sub-description
\* element (its trimmed text, split at the bullets), the time element, the
\* text of the reactions count, the texts of the buttons and links in
\* document order, and the spans naming impressions.  What a page shows
\* depends on the post.
Pages ==
    [d \in 0..9 |->
        [sub |-> CASE d = 2 -> NoElement
                   [] d = 3 -> Element(<< "" >>)
                   [] OTHER -> Element(<< "2d ", " Edited" >>),
         time |-> IF d \in {2, 3} THEN Element(<< Numeral(d) \o "d" >>) ELSE NoElement,
         reactions |-> IF d = 1 THEN "1,024" ELSE IF d = 2 THEN "" ELSE Numeral(d),
         buttons |-> IF d = 1 THEN << "Like", "12 comments", "3 reposts" >>
                     ELSE << "Like", "Comment", "Repost", "Send" >>,
         spans |-> CASE d \in {1, 9} -> << Span(TRUE, "1,234 post impressions") >>
                     [] d = 5 -> << Span(TRUE, "0 post impressions"),
                                    Span(FALSE, "57 impressions") >>
                     [] d = 2 -> << >>
                     [] d = 6 -> << Span(FALSE, "40 profile views, 9 impressions") >>
                     [] d \in {3, 7} -> << Span(TRUE, "56 Impressions") >>
                     [] OTHER -> << Span(TRUE, "0,000 organic impressions") >>]]
PageOf(urn) == Pages[LastDigit(urn)]

\* lines 145-161: the date is the text of the sub-description up to its
\* first bullet, trimmed; the time element is read only when there is no
\* sub-description element.
DateOf(page) ==
    IF page.sub.present THEN Trim(page.sub.parts[1])
    ELSE IF page.time.present THEN Trim(page.time.parts[1])
    ELSE ""

\* allButtons.find(el => el.textContent.toLowerCase().includes(word)): the
\* text of the first such button, '' when there is none.
RECURSIVE FindNaming(_, _)
FindNaming(buttons, word) ==
    IF buttons = << >> THEN ""
    ELSE IF Includes(Lower(Head(buttons)), word) THEN Head(buttons)
    ELSE FindNaming(Tail(buttons), word)

\* lines 120-224: the object page.evaluate returns on the page of a post.
Evaluated(page) ==
    [imageUrl |-> "",
     likes |-> ParseCount(page.reactions),
     comments |-> ParseCount(FindNaming(page.buttons, "comment")),
     reposts |-> ParseCount(FindNaming(page.buttons, "repost")),
     impressionsText |-> ImpressionsText(page.spans),
     date |-> DateOf(page)]
EvaluatedPages == [d \in 0..9 |-> Evaluated(Pages[d])]

\* The text the impressions tiers resolve on the page of a post.
ImpressionsTextOf(urn) == EvaluatedPages[LastDigit(urn)].impressionsText

PageData(post) ==
    LET res == EvaluatedPages[LastDigit(post.postUrn)]
    IN  [content |-> "text of " \o post.postUrn, imageUrl |-> res.imageUrl,
         likes |-> res.likes, comments |-> res.comments, reposts |-> res.reposts,
         impressionsText |-> res.impressionsText, date |-> res.date]

\* The entry with the date of the page stored as posted_at.
EntryDateAsPostedAt(post, data) ==
    [key \in DOMAIN post \cup DOMAIN data \cup {"impressions"} |->
        IF key = "impressions" THEN ParseCount(data.impressionsText)
        ELSE IF key = "posted_at" THEN data.date
        ELSE IF key \in DOMAIN data THEN data[key]
        ELSE post[key]]

\* lines 232-236: { ...post, ...data, impressions: impressionCount }
Entry(post, data) ==
    [key \in DOMAIN post \cup DOMAIN data \cup {"impressions"} |->
        IF key = "impressions" THEN ParseCount(data.impressionsText)
        ELSE IF key \in DOMAIN data THEN data[key]
        ELSE post[key]]

\* A post without impressions ends the loop.
StopOnZero(run) == [run EXCEPT !.k = Len(run.targetPosts) + 1]

\* lines 229-230: a post with 0 impressions is logged and the loop goes on.
SkipZero(run) == [run EXCEPT !.k = @ + 1]

\* The error of a post is thrown on to the catch of line 257.
Rethrow(run) == [run EXCEPT !.pc = "fatal", !.err = "post"]

\* lines 240-242: the error of a post is logged and the loop goes on.
Caught(run) == [run EXCEPT !.k = @ + 1]

\* lines 246-249: the final filter on impressionsText.
RECURSIVE FinalResults(_)
FinalResults(rs) ==
    IF rs = << >> THEN << >>
    ELSE IF ParseCount(Head(rs).impressionsText) > 0
    THEN << Head(rs) >> \o FinalResults(Tail(rs))
    ELSE FinalResults(Tail(rs))

\* line 66: posts.slice(0, 5)
Target(posts) == SubSeq(posts, 1, Min(Len(posts), TargetLimit))

\* lines 54-67: data/posts.json is read.  Without the file, or with an
\* empty array in it, the run returns.
ReadPosts ==
    /\ fa.pc = "start"
    /\ fa' = IF ~postsFile.exists
             THEN [fa EXCEPT !.pc = "done", !.exit = "noInput"]
             ELSE IF Len(postsFile.posts) = 0
             THEN [fa EXCEPT !.pc = "done", !.exit = "emptyInput"]
             ELSE [fa EXCEPT !.pc = "account",
                             !.targetPosts = Target(postsFile.posts)]
    /\ UNCHANGED << connectVars, accounts, collectVars, postsFile, results,
                    enrichedFile, faulted, priorEnriched, roundTrip >>

\* lines 70-78: the SELECT and decrypt.  Without a row the run returns; a
\* throw of decrypt goes to the catch of line 257.
AnalyticsAccount ==
    /\ fa.pc = "account"
    /\ IF accounts = << >>
       THEN fa' = [fa EXCEPT !.pc = "done", !.exit = "noAccount"]
       ELSE \E account \in LatestAccount(accounts) :
              LET r == Decrypt(account.li_at_encrypted)
              IN  IF DecryptOk(r)
                  THEN fa' = [fa EXCEPT !.pc = "launch", !.li_at = r.text]
                  ELSE fa' = [fa EXCEPT !.pc = "fatal", !.err = "decrypt"]
    /\ UNCHANGED << connectVars, accounts, collectVars, postsFile, results,
                    enrichedFile, faulted, priorEnriched, roundTrip >>

\* lines 82-100: chromium.launch, newContext, addCookies, newPage,
\* results = [].
AnalyticsLaunch ==
    /\ fa.pc = "launch"
    /\ \E outcome \in {"launchThrows", "contextThrows", "ok"} :
         fa' = CASE outcome = "launchThrows" ->
                        [fa EXCEPT !.pc = "fatal", !.err = "launch"]
                 [] outcome = "contextThrows" ->
                        [fa EXCEPT !.pc = "fatal", !.err = "context",
                                   !.browser = "open"]
                 [] OTHER -> [fa EXCEPT !.pc = "loop", !.browser = "open", !.k = 1]
    /\ results' = << >>
    /\ UNCHANGED << connectVars, accounts, collectVars, postsFile,
                    enrichedFile, faulted, priorEnriched, roundTrip >>

\* lines 102-243: one pass of for (const post of targetPosts).  Line 103
\* (post.postUrn || post.url.split(...)) is outside the try of line 107:
\* for a post with neither member post.url is undefined and the TypeError
\* goes to the catch of line 257.  Otherwise the page of the post is opened
\* and evaluated inside try/catch; a post with impressions is pushed to
\* results.  After the last post the loop is left.
ProcessPost ==
    /\ fa.pc = "loop"
    /\ IF fa.k <= Len(fa.targetPosts)
       THEN LET post == fa.targetPosts[fa.k]
                data == PageData(post)
            IN  IF post.postUrn = ""
                THEN /\ fa' = [fa EXCEPT !.pc = "fatal", !.err = "urn"]
                     /\ UNCHANGED << results, faulted >>
                ELSE \E throws \in BOOLEAN :
                       IF throws
                       THEN /\ fa' = Caught(fa)
                            /\ faulted' = faulted \cup {fa.k}
                            /\ UNCHANGED results
                       ELSE IF ParseCount(data.impressionsText) = 0
                       THEN /\ fa' = SkipZero(fa)
                            /\ UNCHANGED << results, faulted >>
                       ELSE /\ results' = Append(results, Entry(post, data))
                            /\ fa' = [fa EXCEPT !.k = @ + 1]
                            /\ UNCHANGED faulted
       ELSE /\ fa' = [fa EXCEPT !.pc = "save"]
            /\ UNCHANGED << results, faulted >>
    /\ UNCHANGED << connectVars, accounts, collectVars, postsFile,
                    enrichedFile, priorEnriched, roundTrip >>

\* lines 246-252: the filtered results are written to
\* data/posts_enriched.json; a throw of writeFileSync is fatal.
SaveEnriched ==
    /\ fa.pc = "save"
    /\ \E ok \in BOOLEAN :
         IF ok
         THEN /\ enrichedFile' = JsonFile(FinalResults(results))
              /\ fa' = [fa EXCEPT !.pc = "close"]
         ELSE /\ fa' = [fa EXCEPT !.pc = "fatal", !.err = "save"]
              /\ UNCHANGED enrichedFile
    /\ UNCHANGED << connectVars, accounts, collectVars, postsFile, results,
                    faulted, priorEnriched, roundTrip >>

\* lines 254-255: await browser.close().
AnalyticsClose ==
    /\ fa.pc = "close"
    /\ fa' = [fa EXCEPT !.pc = "done", !.exit = "ok", !.browser = "closed"]
    /\ UNCHANGED << connectVars, accounts, collectVars, postsFile, results,
                    enrichedFile, faulted, priorEnriched, roundTrip >>

\* lines 257-259: the outer catch logs the error; the run ends.  browser is
\* a const of the try block and is not in scope here.
AnalyticsFatal ==
    /\ fa.pc = "fatal"
    /\ fa' = [fa EXCEPT !.pc = "done", !.exit = "fatal"]
    /\ UNCHANGED << connectVars, accounts, collectVars, postsFile, results,
                    enrichedFile, faulted, priorEnriched, roundTrip >>

(***************************************************************************)
(* POST of the refresh route (connect/route.ts lines 61-89): exec of the    *)
(* enrichment script, and the answer when the child has ended.             *)
(***************************************************************************)
\* lines 82 and 84-88: the two bodies of the refresh route.
RefreshBody(success) ==
    IF success
    THEN [call |-> "refresh", http |-> 200, success |-> TRUE,
          message |-> "Analytics refreshed successfully", error |-> ""]
    ELSE [call |-> "refresh", http |-> 500, success |-> FALSE,
          message |-> "", error |-> "Failed to run analytics script"]

\* lines 71-75: exec calls back with an error (the command could not be
\* run, or the child ended with a code other than 0): reject, answered by
\* the catch.  The script itself has not run a statement.
RefreshExecError ==
    /\ fa.pc = "start"
    /\ resp = NoResp
    /\ fa' = [fa EXCEPT !.pc = "done", !.exit = "notRun"]
    /\ resp' = RefreshBody(FALSE)
    /\ UNCHANGED << client, nextId, proc, jar, artifact, started, connectResp, history,
                    accounts, collectVars, postsFile, results, enrichedFile,
                    faulted, priorEnriched, roundTrip >>

\* lines 76-82: the child has ended.  fetchAnalytics returns on every path
\* (lines 56, 62, 74, and the catch of line 257 only logs), so the process
\* ends with code 0 and exec calls back without error: resolve.
RefreshAnswer ==
    /\ fa.pc = "done"
    /\ fa.exit # "notRun"
    /\ resp = NoResp
    /\ resp' = RefreshBody(TRUE)
    /\ UNCHANGED << client, nextId, proc, jar, artifact, started, connectResp, history,
                    accounts, collectVars, postsFile, enrichVars, roundTrip >>

\* An enrichment run is started on any account table, any data/posts.json
\* and any earlier data/posts_enriched.json.
InitEnrich ==
    /\ HandoffIdle
    /\ accounts \in AccountStores
    /\ fp = FpOff
    /\ updates = << >>
    /\ uniquePosts = << >>
    /\ postsFile \in PostsFiles
    /\ priorPosts = postsFile
    /\ synced = << >>
    /\ fa = FaStart
    /\ results = << >>
    /\ enrichedFile \in PriorEnrichedFiles
    /\ faulted = {}
    /\ priorEnriched = enrichedFile
    /\ roundTrip = NoRoundTrip

NextEnrich ==
    \/ ReadPosts
    \/ AnalyticsAccount
    \/ AnalyticsLaunch
    \/ ProcessPost
    \/ SaveEnriched
    \/ AnalyticsClose
    \/ AnalyticsFatal
    \/ RefreshExecError
    \/ RefreshAnswer

\* One of the two scripts is run, from its first statement to its end.
InitScripts == InitCollect \/ InitEnrich

NextScripts == NextCollect \/ NextEnrich

SpecScripts == InitScripts /\ [][NextScripts]_vars

(***************************************************************************)
(* The account step of both scripts on a table of two accounts.            *)
(***************************************************************************)
InitAccount ==
    /\ HandoffIdle
    /\ accounts \in TwoAccountStores
    /\ updates = << >>
    /\ uniquePosts = << >>
    /\ synced = << >>
    /\ results = << >>
    /\ faulted = {}
    /\ roundTrip = NoRoundTrip
    /\ \/ fp = FpStart /\ fa = FaOff /\ postsFile \in PriorPostsFiles
          /\ enrichedFile = NoFile
       \/ fp = FpOff /\ fa = FaStart /\ postsFile \in PostsFiles
          /\ enrichedFile \in PriorEnrichedFiles
    /\ priorPosts = postsFile
    /\ priorEnriched = enrichedFile

NextAccount == FetchAccount \/ ReadPosts \/ AnalyticsAccount

SpecAccount == InitAccount /\ [][NextAccount]_vars

(***************************************************************************)
(* lib/encryption.ts used on a string: encrypt(s), then decrypt of the     *)
(* record.                                                                 *)
(***************************************************************************)
\* lines 15-21: encrypt(s) with the iv crypto.randomBytes returned.
EncryptString ==
    /\ roundTrip.pc = "plain"
    /\ \E iv \in IVs :
         roundTrip' = [roundTrip EXCEPT !.pc = "encrypted", !.iv = iv,
                                        !.enc = EncryptText(iv, roundTrip.s)]
    /\ UNCHANGED << connectVars, accounts, collectVars, postsFile, enrichVars >>

\* lines 23-34: decrypt of the record.
DecryptRecord ==
    /\ roundTrip.pc = "encrypted"
    /\ roundTrip' = [roundTrip EXCEPT !.pc = "decrypted",
                                      !.dec = Decrypt(roundTrip.enc)]
    /\ UNCHANGED << connectVars, accounts, collectVars, postsFile, enrichVars >>

\* Records that are not exactly ivHex:payloadHex, made from a record encrypt
\* returned: the delimiter removed, a third part added, a character that is
\* no hex digit at the end of the payload, at the end of the iv part, and at
\* the start of the payload; and two strings encrypt never returned
\* ('deadbeef' and 'not-a-valid-record').
MalformedRecords(rec) ==
    LET colon == FirstColon(rec)
        ivPart == SubSeq(rec, 1, colon - 1)
        payload == SubSeq(rec, colon + 1, Len(rec))
    IN  { ivPart \o payload,
          rec \o << ":", "z", "z" >>,
          rec \o << "z" >>,
          ivPart \o << "z", "z", ":" >> \o payload,
          ivPart \o << ":", "z" >> \o payload,
          << "d", "e", "a", "d", "b", "e", "e", "f" >>,
          << "n", "o", "t", "-", "a", "-", "v", "a", "l", "i", "d", "-",
             "r", "e", "c", "o", "r", "d" >> }

\* lines 23-34: decrypt of a record that is not of the shape encrypt returns.
DecryptMalformed ==
    /\ roundTrip.pc = "encrypted"
    /\ \E rec \in MalformedRecords(roundTrip.enc) :
         roundTrip' = [roundTrip EXCEPT !.pc = "decryptedMalformed",
                                        !.enc = rec, !.dec = Decrypt(rec)]
    /\ UNCHANGED << connectVars, accounts, collectVars, postsFile, enrichVars >>

\* encrypt is given any string of the bounded length.
InitCrypto ==
    /\ HandoffIdle
    /\ accounts = << >>
    /\ RunsIdle
    /\ \E s \in Strings : roundTrip = [NoRoundTrip EXCEPT !.pc = "plain", !.s = s]

NextCrypto == EncryptString \/ DecryptRecord \/ DecryptMalformed

SpecCrypto == InitCrypto /\ [][NextCrypto]_vars

(***************************************************************************)
(* The system: the routes are called at any time with any input, and every *)
(* started login script runs at its own pace.                              *)
(***************************************************************************)
Next ==
    \/ \E outcome \in ConnectOutcomes : POST(outcome)
    \/ \E i \in SessionIds : Producer(i)
    \/ \E sid \in PollIds : GET(sid)

Spec == Init /\ [][Next]_vars

\* The page drives the routes: the server handles the requests the page
\* sends, and every started login script runs at its own pace.
NextClient ==
    \/ StartConnect
    \/ Serve
    \/ \E i \in SessionIds : Producer(i)
    \/ \E sid \in SessionIds : PollTick(sid)
    \/ \E p \in 1..MaxPolls : PollFetched(p)
    \/ \E p \in 1..MaxPolls : PollHandled(p)

SpecClient == Init /\ [][NextClient]_vars

\* The statements of the login script of session i, without the user's
\* login.
ScriptStep(i) ==
    \/ Launch(i) \/ Check(i)
    \/ SuccessOpen(i) \/ SuccessWrite(i) \/ Stabilize(i)
    \/ TimeoutOpen(i) \/ TimeoutWrite(i)
    \/ Fatal(i)

\* Each login script is a process of its own (spawned detached and
\* unref'd, connect/route.ts lines 36-49): Node runs its next statement
\* once the awaited promise has settled or the timer of line 73 has fired,
\* whatever the routes and the user do.
SpecLive == Init /\ [][Next]_vars /\ \A i \in SessionIds : WF_vars(ScriptStep(i))


(***************************************************************************)
(* Properties of the handoff.                                              *)
(***************************************************************************)
\* The records encrypt can return for this cookie.
Encryptions(cookie) == { Encrypt(iv, cookie) : iv \in IVs }

\* The rows of linkedin_accounts that came from session i's artifacts.
RowsOf(i) == { n \in DOMAIN accounts : accounts[n].sid = i }

\* The step appended exactly one row, the encryption of this cookie.
InsertedOne(cookie) ==
    /\ Len(accounts') = Len(accounts) + 1
    /\ SubSeq(accounts', 1, Len(accounts)) = accounts
    /\ accounts'[Len(accounts')].li_at_encrypted \in Encryptions(cookie)

\* C1: once a GET for a session id has returned a non-waiting status
\* (connected, timeout or error), every later GET for that id returns
\* waiting.
C1_NoSecondDelivery ==
    [][\A i \in SessionIds :
          (delivered[i] /\ GET(i)) => resp'.status = "waiting"]_vars

\* C2: at most one Account row is ever inserted for a single session id.
C2_AtMostOneRowPerSession ==
    \A i \in SessionIds : Cardinality(RowsOf(i)) <= 1

\* C3: the login script writes the handoff artifact of its session id at
\* most once in its lifetime.
C3_ProducerWritesOnce ==
    \A i \in SessionIds : writes[i] <= 1

\* C4: a token that a GET has taken out of a success artifact is never
\* dropped: an Account row of that session holds its encryption.
C4_ConsumedTokenIsPersisted ==
    \A i \in SessionIds :
      \A t \in consumed[i] :
        \E n \in RowsOf(i) : accounts[n].li_at_encrypted \in Encryptions(t)

\* C5: after the login script has ended with a process-level failure
\* (exit code 1), a GET for its id returns status error.  Once the process
\* has exited nothing writes its artifact any more, so all later GETs answer
\* alike: if one answers waiting, all do.
C5_PollAfterFatalExitReturnsError ==
    [][\A i \in SessionIds :
          (proc[i].pc = "exited" /\ proc[i].code = 1 /\ GET(i))
             => resp'.status = "error"]_vars

\* C6: the script writes the timeout document only after the bound has
\* elapsed with no li_at cookie observed in any check, and the success
\* document only with an li_at value it observed; the GET that consumes a
\* timeout document returns status timeout and inserts no row.
C6_TimeoutOnlyWithoutCookie ==
    [][\A i \in SessionIds :
          /\ TimeoutWrite(i) =>
                (proc[i].elapsed >= TimeoutTicks /\ observed[i] = {})
          /\ SuccessWrite(i) => artifact'[i].cookie \in observed[i]
          /\ (artifact[i].st = "timeout" /\ GET(i)) =>
                (resp'.status = "timeout" /\ accounts' = accounts)]_vars

\* C7: if the login script cannot be started (script missing, spawn throws,
\* no pid), POST returns a fault with no sessionId, no process runs for the
\* generated id and no artifact is ever written for it.
C7_SpawnFailureLeavesNoSession ==
    \A i \in SessionIds :
      started[i] \in {"scriptMissing", "spawnThrows", "noPid"} =>
        /\ connectResp[i].http = 500
        /\ connectResp[i].error # ""
        /\ connectResp[i].sessionId = NoSessionId
        /\ proc[i] = NoProc
        /\ artifact[i] = Absent
        /\ writes[i] = 0

\* A start that failed for want of a pid, beside a session that ran to its
\* end and wrote its artifact.
C7_Witness ==
    \E i, j \in SessionIds :
      /\ started[i] = "noPid"
      /\ started[j] = "ok" /\ proc[j].pc = "exited" /\ writes[j] >= 1

\* C8: the raw token is nowhere at rest in plaintext: every Account row
\* holds an encrypt() output, and once a GET has read the token out of the
\* handoff artifact no artifact of that session holds a token.
C8_NoPlaintextAtRest ==
    /\ \A n \in DOMAIN accounts :
         \E t \in Tokens : accounts[n].li_at_encrypted \in Encryptions(t)
    /\ \A i \in SessionIds :
         consumed[i] # {} => artifact[i].st # "success"

\* C9: a GET returns connected if and only if it read a success artifact
\* and inserted exactly one new row holding the encrypted token; a GET that
\* returns anything else inserts no row.
C9_ConnectedIffInserted ==
    [][\A sid \in PollIds :
          GET(sid) =>
            IF sid = NoSessionId
            THEN resp'.status # "connected" /\ accounts' = accounts
            ELSE /\ (resp'.status = "connected") <=>
                        (artifact[sid].st = "success"
                           /\ InsertedOne(artifact[sid].cookie))
                 /\ resp'.status # "connected" => accounts' = accounts]_vars

\* A GET has answered connected and the table holds a row; another session's
\* GET failed to save.
C9_Witness ==
    /\ resp.status = "connected"
    /\ Len(accounts) >= 1
    /\ \E i \in SessionIds : consumed[i] # {} /\ RowsOf(i) = {}

\* C10: on every terminal path of the login script (success, timeout, fatal
\* error after launch) the browser has been closed when the process exits.
C10_BrowserClosedAtExit ==
    \A i \in SessionIds : proc[i].pc = "exited" => proc[i].browser # "open"

\* One script ended in the catch after the browser was launched, another
\* ended normally after writing its artifact; both browsers are closed.
C10_Witness ==
    \E i, j \in SessionIds :
      /\ proc[i].pc = "exited" /\ proc[i].code = 1 /\ proc[i].browser = "closed"
      /\ proc[j].pc = "exited" /\ proc[j].code = 0 /\ proc[j].browser = "closed"

(***************************************************************************)
(* Properties of the collection and enrichment scripts (SpecScripts).      *)
(***************************************************************************)
\* The snapshot has been deduplicated: the run is at or past line 186.
Deduplicated ==
    \/ fp.pc \in {"save", "sync", "close"}
    \/ fp.exit = "ok"
    \/ fp.err = "save"

\* data/posts.json has been written by this run.
PostsWritten == fp.pc \in {"sync", "close"} \/ fp.exit = "ok"

\* data/posts_enriched.json has been written by this run.
EnrichedWritten == fa.pc = "close" \/ fa.exit = "ok"

\* The non-empty urns of the snapshot, and the place where each is first.
RawUrns == { updates[j].urn : j \in 1..Len(updates) } \ {""}
FirstSeen(urn) ==
    CHOOSE j \in 1..Len(updates) :
        /\ updates[j].urn = urn
        /\ \A h \in 1..(j - 1) : updates[h].urn # urn

\* The entries of data/posts_enriched.json with this urn.
EntriesOf(urn) ==
    { a \in 1..Len(enrichedFile.posts) : enrichedFile.posts[a].postUrn = urn }

\* The post page of this reference shows a positive number of impressions
\* (a reference without urn has no page).
ShowsImpressions(post) ==
    post.postUrn # "" /\ ParseCount(ImpressionsTextOf(post.postUrn)) > 0

\* C11: in a collection run and in an enrichment run, a browser that was
\* launched is closed when the run has ended, whatever the exit path
\* (completion, session-validation failure, fatal error after launch).
C11_BrowserClosedOnEveryExit ==
    /\ (fp.pc = "done" /\ fp.browser # "none") => fp.browser = "closed"
    /\ (fa.pc = "done" /\ fa.browser # "none") => fa.browser = "closed"

\* C12: once the feed navigation has left the page on a URL containing
\* "login" or "guest" and the run has tested it, the run has ended as
\* session-invalid with no scroll step done, nothing extracted,
\* data/posts.json exactly as it was and no request sent to the remote
\* store.
C12_InvalidSessionEndsBeforeScroll ==
    (/\ fp.pc \notin {"off", "start", "launch", "feed", "validate"}
     /\ Includes(fp.url, "login") \/ Includes(fp.url, "guest"))
    => /\ fp.pc = "done"
       /\ fp.exit = "sessionInvalid"
       /\ fp.i = 0
       /\ updates = << >>
       /\ uniquePosts = << >>
       /\ postsFile = priorPosts
       /\ synced = << >>

C12_Witness ==
    /\ fp.exit = "sessionInvalid"
    /\ Includes(fp.url, "guest")
    /\ priorPosts.exists
    /\ postsFile = priorPosts

\* C13: the deduplicated list holds no urn twice and no empty urn, every
\* entry carries the fields of the first element of the snapshot with its
\* urn, and the entries are in the order of those first elements (each
\* entry's first element comes before that of the next entry).
C13_DedupKeepsFirstOccurrences ==
    Deduplicated =>
        /\ \A a, b \in 1..Len(uniquePosts) :
               a # b => uniquePosts[a].postUrn # uniquePosts[b].postUrn
        /\ \A a \in 1..Len(uniquePosts) :
               /\ uniquePosts[a].postUrn # ""
               /\ \E h \in 1..Len(updates) : updates[h].urn = uniquePosts[a].postUrn
               /\ uniquePosts[a] =
                      Stored(Extracted(
                          << updates[FirstSeen(uniquePosts[a].postUrn)] >>)[1])
        /\ \A a \in 1..(Len(uniquePosts) - 1) :
               FirstSeen(uniquePosts[a].postUrn)
                   < FirstSeen(uniquePosts[a + 1].postUrn)

C13_Witness ==
    /\ Deduplicated
    /\ Len(uniquePosts) >= 2
    /\ \E h \in 1..Len(updates) : updates[h].urn = ""
    /\ \E h, j \in 1..Len(updates) :
           /\ h < j
           /\ updates[h].urn # ""
           /\ updates[h].urn = updates[j].urn
           /\ TimeTextOf(updates[h]) # TimeTextOf(updates[j])

\* C14: for a snapshot with d distinct non-empty urns, the written
\* data/posts.json has exactly min(d, 30) entries and never more than 30;
\* they are urns of the snapshot in first-seen order, and a urn that was
\* left out is first seen only after all 30 that were kept.
C14_WindowOfThirty ==
    PostsWritten =>
        /\ Len(postsFile.posts) =
               (IF Cardinality(RawUrns) < 30 THEN Cardinality(RawUrns) ELSE 30)
        /\ Len(postsFile.posts) <= 30
        /\ \A a \in 1..Len(postsFile.posts) :
               \E h \in 1..Len(updates) : updates[h].urn = postsFile.posts[a].postUrn
        /\ \A a \in 1..(Len(postsFile.posts) - 1) :
               FirstSeen(postsFile.posts[a].postUrn)
                   < FirstSeen(postsFile.posts[a + 1].postUrn)
        /\ \A h \in 1..Len(updates) :
               (/\ updates[h].urn # ""
                /\ \A a \in 1..Len(postsFile.posts) :
                       postsFile.posts[a].postUrn # updates[h].urn)
               => /\ Len(postsFile.posts) = 30
                  /\ FirstSeen(postsFile.posts[30].postUrn) < h

C14_Witness ==
    /\ PostsWritten
    /\ Cardinality(RawUrns) > 30
    /\ Len(postsFile.posts) = 30
    /\ \E h \in 1..Len(updates) :
           /\ updates[h].urn # ""
           /\ \A a \in 1..30 : postsFile.posts[a].postUrn # updates[h].urn

\* C15: every entry of a written data/posts_enriched.json has
\* impressions > 0; a processed post whose page resolves to 0 impressions
\* has no entry, the run is not in error, and every processed post whose
\* page shows impressions has its entry, also after a post that showed none.
C15_OnlyPositiveImpressions ==
    EnrichedWritten =>
        /\ \A a \in 1..Len(enrichedFile.posts) : enrichedFile.posts[a].impressions > 0
        /\ fa.err = ""
        /\ \A k \in 1..Len(fa.targetPosts) :
               k \notin faulted =>
                   IF ShowsImpressions(fa.targetPosts[k])
                   THEN EntriesOf(fa.targetPosts[k].postUrn) # {}
                   ELSE EntriesOf(fa.targetPosts[k].postUrn) = {}

C15_Witness ==
    /\ fa.exit = "ok"
    /\ \E j, k \in 1..Len(fa.targetPosts) :
           /\ j < k
           /\ j \notin faulted
           /\ ~ShowsImpressions(fa.targetPosts[j])
           /\ EntriesOf(fa.targetPosts[j].postUrn) = {}
           /\ EntriesOf(fa.targetPosts[k].postUrn) # {}

\* The place of the reference with this urn in data/posts.json.
PlaceOf(urn) ==
    CHOOSE k \in 1..Len(postsFile.posts) : postsFile.posts[k].postUrn = urn

\* C16: every entry of a written data/posts_enriched.json has the postUrn,
\* postUrl and posted_at of a reference of data/posts.json, no reference
\* has two entries, and the entries are in the order of their references.
C16_EntriesKeepReferences ==
    EnrichedWritten =>
        /\ \A a \in 1..Len(enrichedFile.posts) :
               \E k \in 1..Len(postsFile.posts) :
                   /\ postsFile.posts[k].postUrn = enrichedFile.posts[a].postUrn
                   /\ postsFile.posts[k].postUrl = enrichedFile.posts[a].postUrl
                   /\ postsFile.posts[k].posted_at = enrichedFile.posts[a].posted_at
        /\ \A a, b \in 1..Len(enrichedFile.posts) :
               a < b => PlaceOf(enrichedFile.posts[a].postUrn)
                            < PlaceOf(enrichedFile.posts[b].postUrn)

C16_Witness ==
    /\ fa.exit = "ok"
    /\ Len(enrichedFile.posts) >= 2
    /\ PlaceOf(enrichedFile.posts[1].postUrn) + 1
           < PlaceOf(enrichedFile.posts[2].postUrn)

\* C17: every reference of data/posts.json is visited, whatever its place:
\* when the run has written data/posts_enriched.json, each reference whose
\* processing did not fail and whose page shows impressions has an entry.
C17_EveryReferenceVisited ==
    EnrichedWritten =>
        \A k \in 1..Len(postsFile.posts) :
            (k \notin faulted /\ ShowsImpressions(postsFile.posts[k]))
            => EntriesOf(postsFile.posts[k].postUrn) # {}

\* C18: an exception in the processing of one post takes only that post
\* out: the run does not go to its outer catch for it (it goes there only
\* for a throw of the write, or of line 103 on a later post without urn),
\* the posts after it are processed, and data/posts_enriched.json is
\* written with the entries of the posts that succeeded.
C18_ItemFaultSkipsOnlyThatItem ==
    /\ (faulted # {} /\ fa.pc = "fatal") => fa.err \in {"save", "urn"}
    /\ (faulted # {} /\ fa.pc = "done") => (fa.exit = "ok" \/ fa.err \in {"save", "urn"})
    /\ (faulted # {} /\ EnrichedWritten) =>
           \A k \in 1..Len(fa.targetPosts) :
               IF k \in faulted
               THEN EntriesOf(fa.targetPosts[k].postUrn) = {}
               ELSE ShowsImpressions(fa.targetPosts[k])
                        => EntriesOf(fa.targetPosts[k].postUrn) # {}

C18_Witness ==
    /\ fa.exit = "ok"
    /\ \E j, k \in 1..Len(fa.targetPosts) :
           /\ j < k
           /\ j \in faulted
           /\ ShowsImpressions(fa.targetPosts[j])
           /\ EntriesOf(fa.targetPosts[j].postUrn) = {}
           /\ EntriesOf(fa.targetPosts[k].postUrn) # {}

\* C19: with no account row, or a row decrypt fails on, a collection run
\* leaves data/posts.json as it was and an enrichment run leaves
\* data/posts_enriched.json as it was; so does an enrichment run that finds
\* data/posts.json missing or empty.
C19_RunFaultWritesNothing ==
    /\ (accounts = << >> \/ accounts = << ForeignRow >>)
           => /\ postsFile = priorPosts
              /\ enrichedFile = priorEnriched
              /\ fp.pc \in {"off", "start", "fatal", "done"}
              /\ fa.pc \in {"off", "start", "account", "fatal", "done"}
    /\ (fa.pc # "off" /\ (~postsFile.exists \/ postsFile.posts = << >>))
           => /\ enrichedFile = priorEnriched
              /\ fa.pc \in {"start", "done"}

C19_Witness ==
    /\ accounts = << ForeignRow >>
    /\ fa.pc = "done"
    /\ Len(postsFile.posts) > 0
    /\ priorEnriched.exists
    /\ enrichedFile = priorEnriched

(***************************************************************************)
(* Properties of lib/encryption (SpecCrypto).                              *)
(***************************************************************************)
\* A string without an unpaired surrogate code unit.
WellFormed(s) ==
    \A i \in 1..Len(s) :
        /\ IsHighSurrogate(s[i]) => (i < Len(s) /\ IsLowSurrogate(s[i + 1]))
        /\ IsLowSurrogate(s[i]) => (i > 1 /\ IsHighSurrogate(s[i - 1]))

\* C20 as stated: for every string s, decrypt(encrypt(s)) returns s.
C20_RoundTripEveryString ==
    roundTrip.pc = "decrypted" => roundTrip.dec = Decrypted(roundTrip.s)

\* C20 as amended: for every string s without an unpaired surrogate, the
\* empty string and non-ASCII strings included, decrypt(encrypt(s))
\* returns s.
C20_RoundTripWellFormed ==
    (roundTrip.pc = "decrypted" /\ WellFormed(roundTrip.s))
        => roundTrip.dec = Decrypted(roundTrip.s)

C20_Witness ==
    /\ roundTrip.pc = "decrypted"
    /\ roundTrip.s = << 8364, 233 >>
    /\ roundTrip.dec = Decrypted(<< 8364, 233 >>)


(***************************************************************************)
(* C21: decrypt fails (returns no plaintext) for every record that is not  *)
(* exactly ivHex:payloadHex -- delimiter absent, more than two parts, or a *)
(* character that is no hex digit in either part.                          *)
(***************************************************************************)
C21_MalformedRecordFails ==
    roundTrip.pc = "decryptedMalformed" => ~roundTrip.dec.ok


(***************************************************************************)
(* C22: the account a collection or enrichment run uses is the one that    *)
(* was inserted last: for accounts inserted at times T1 < T2 the run       *)
(* decrypts the T2 account's token.                                        *)
(***************************************************************************)
C22_RunUsesLastInsertedAccount ==
    LET token == Decrypt(accounts[Len(accounts)].li_at_encrypted).text
    IN  /\ fp.pc = "launch" => fp.li_at = token
        /\ fa.pc = "launch" => fa.li_at = token


(***************************************************************************)
(* C23: the account store is append-only.  A status poll that answers      *)
(* 'connected' adds one row with an id no stored row has; no step of the   *)
(* system changes or removes a stored row, so two connects give two rows.  *)
(***************************************************************************)
\* The step is a status poll that consumed a success artifact and answered
\* 'connected'.
ConnectedStep ==
    /\ resp' = SaveBody(TRUE)
    /\ \E i \in SessionIds : artifact[i].st = "success" /\ artifact'[i] = Absent

C23_AccountStoreAppendOnly ==
    [][ /\ Len(accounts') >= Len(accounts)
        /\ SubSeq(accounts', 1, Len(accounts)) = accounts
        /\ IF ConnectedStep
           THEN /\ Len(accounts') = Len(accounts) + 1
                /\ \A n \in DOMAIN accounts :
                      accounts[n].id # accounts'[Len(accounts')].id
           ELSE accounts' = accounts ]_vars

C23_Witness ==
    /\ Len(accounts) = 2
    /\ accounts[1].id # accounts[2].id
    /\ accounts[1].sid # accounts[2].sid
    /\ resp = SaveBody(TRUE)


(***************************************************************************)
(* C24: every response of the connect and status routes carries only       *)
(* strings of a fixed closed set (the literals of the two handlers); the   *)
(* text of an exception and the token are in no response body.             *)
(***************************************************************************)
\* The bodies built from the string literals of the two handlers alone; a
\* body has no member that holds a cookie.
ClosedBodies ==
    [call : {"none", "connect", "status"},
     http : {0, 200, 400, 500},
     status : {"", "waiting", "connected", "timeout", "error"},
     message : {"", "Failed to save account", "Failed to read session data"},
     error : {"", "Script not found", "Failed to spawn", "Session ID is required"},
     sessionId : PollIds]

C24_ResponsesFromClosedSet ==
    /\ resp \in ClosedBodies
    /\ \A i \in SessionIds : connectResp[i] \in ClosedBodies


(***************************************************************************)
(* C25: every started login script ends by itself -- it exits on success,  *)
(* after the time bound, or on a fatal error -- whatever the routes are    *)
(* asked; and no step of a route changes a running script's state (there   *)
(* is no cancel).                                                          *)
(***************************************************************************)
Running(i) == proc[i].pc \notin {"none", "exited"}

C25_ProcessEndsByItself ==
    /\ \A i \in SessionIds : Running(i) ~> proc[i].pc = "exited"
    /\ [][ \A i \in SessionIds :
             (Running(i) /\ proc'[i] # proc[i]) => ScriptStep(i) ]_vars

\* A script that saw no login ran into the time bound and exited.
C25_Witness ==
    \E i \in SessionIds :
        /\ proc[i].pc = "exited"
        /\ proc[i].code = 0
        /\ proc[i].elapsed = TimeoutTicks
        /\ jar[i] = NoToken
        /\ writes[i] = 1


(***************************************************************************)
(* C26: the refresh route reports the outcome of the enrichment run: its   *)
(* answer is success exactly when the run completed and wrote              *)
(* data/posts_enriched.json, and failure when the run aborted.             *)
(***************************************************************************)
C26_RefreshReportsRunOutcome ==
    resp.call = "refresh" => (resp.success <=> fa.exit = "ok")


(***************************************************************************)
(* C27: a collection run that writes data/posts.json has made exactly 50   *)
(* scroll passes (each with its wait), one at a time; the one snapshot is  *)
(* taken after the last pass, and nothing is extracted, deduplicated or    *)
(* written before the 50th pass is complete.                               *)
(***************************************************************************)
C27_FiftyScrollsThenOneSnapshot ==
    /\ [](PostsWritten => fp.i = TOTAL_SCROLLS)
    /\ [][ /\ fp'.i # fp.i =>
                 fp.pc = "scroll" /\ fp'.i = fp.i + 1 /\ fp'.i <= TOTAL_SCROLLS
           /\ (fp'.pc = "extract" /\ fp.pc # "extract") =>
                 fp.pc = "scroll" /\ fp.i = TOTAL_SCROLLS
           /\ updates' # updates =>
                 fp.pc = "extract" /\ fp.i = TOTAL_SCROLLS /\ updates = << >>
           /\ (uniquePosts' # uniquePosts \/ postsFile' # postsFile) =>
                 fp.pc \in {"dedup", "save"} /\ fp.i = TOTAL_SCROLLS ]_vars

C27_Witness ==
    /\ fp.exit = "ok"
    /\ fp.i = TOTAL_SCROLLS
    /\ postsFile # priorPosts
    /\ postsFile.posts # << >>


(***************************************************************************)
(* C28: tier 2 of the impressions extraction counts only when tier 1 found *)
(* nothing: if tier 1 matched a phrase naming post or organic impressions  *)
(* on the page of a post, the impressions of the post are the number tier  *)
(* 1 extracted, also when that number is 0.                                *)
(***************************************************************************)
C28_Tier1ValueWins ==
    \A n \in 1..Len(results) :
        LET t1 == Tier1(PageOf(results[n].postUrn).spans)
        IN  t1.found => results[n].impressions = ParseCount(t1.text)

(***************************************************************************)
(* C29: the strategies of a field are tried in order and the first that    *)
(* yields a non-empty result wins: a sub-description element with empty    *)
(* text does not keep the time element from being read for the date.       *)
(***************************************************************************)
\* The time element is tried whenever the sub-description gave no text.
DateFirstNonEmpty(page) ==
    IF page.sub.present /\ Trim(page.sub.parts[1]) # ""
    THEN Trim(page.sub.parts[1])
    ELSE IF page.time.present THEN Trim(page.time.parts[1])
    ELSE ""


C29_DateFromFirstNonEmptyStrategy ==
    \A n \in 1..Len(results) :
        results[n].date = DateFirstNonEmpty(PageOf(results[n].postUrn))


(***************************************************************************)
(* C30: every numeric field of an entry is the integer formed by the       *)
(* digits of the matched text, all other characters removed, and 0 when no *)
(* digit remains; a post whose main content shows '1,234 post impressions' *)
(* gets impressions = 1234 and is kept in data/posts_enriched.json.        *)
(***************************************************************************)
\* The integer the digits of text form, read from left to right.
RECURSIVE IntegerOfDigits(_, _)
IntegerOfDigits(text, acc) ==
    IF text = "" THEN acc
    ELSE LET c == SubSeq(text, 1, 1)
             at == { d \in 0..9 : Numeral(d) = c }
         IN  IntegerOfDigits(SubSeq(text, 2, Len(text)),
                             IF at = {} THEN acc ELSE acc * 10 + (CHOOSE d \in at : TRUE))

\* The page shows the phrase in the main content scope.
ShowsMainPhrase(urn) ==
    \E i \in 1..Len(PageOf(urn).spans) :
        PageOf(urn).spans[i] = Span(TRUE, "1,234 post impressions")

\* The counts the texts of each page stand for.
CountsShown ==
    [d \in 0..9 |->
        [likes |-> IntegerOfDigits(Pages[d].reactions, 0),
         comments |-> IntegerOfDigits(FindNaming(Pages[d].buttons, "comment"), 0),
         reposts |-> IntegerOfDigits(FindNaming(Pages[d].buttons, "repost"), 0)]]

C30_NumericFieldsFromDigits ==
    /\ \A n \in 1..Len(results) :
         LET e == results[n]
             shown == CountsShown[LastDigit(e.postUrn)]
         IN  /\ e.impressions = IntegerOfDigits(e.impressionsText, 0)
             /\ e.likes = shown.likes
             /\ e.comments = shown.comments
             /\ e.reposts = shown.reposts
    /\ EnrichedWritten =>
         \A k \in 1..Len(fa.targetPosts) :
             (k \notin faulted /\ ShowsMainPhrase(fa.targetPosts[k].postUrn)) =>
                 \E n \in 1..Len(enrichedFile.posts) :
                     /\ enrichedFile.posts[n].postUrn = fa.targetPosts[k].postUrn
                     /\ enrichedFile.posts[n].impressions = 1234

C30_Witness ==
    /\ EnrichedWritten
    /\ \E n \in 1..Len(enrichedFile.posts) :
         /\ enrichedFile.posts[n].impressionsText = "1,234"
         /\ enrichedFile.posts[n].impressions = 1234
         /\ enrichedFile.posts[n].likes = 1024
         /\ enrichedFile.posts[n].comments = 12
    /\ \E n \in 1..Len(enrichedFile.posts) :
         /\ enrichedFile.posts[n].impressions = 56
         /\ enrichedFile.posts[n].comments = 0



(***************************************************************************)
(* C31: each run overwrites its artifact wholesale.  When a collection run *)
(* has written data/posts.json the file is exactly the window of that      *)
(* run's snapshot and holds no entry the file had before; when an          *)
(* enrichment run has written data/posts_enriched.json every entry was     *)
(* made in that run from one of its posts, and no earlier entry is left.   *)
(***************************************************************************)
C31_ArtifactsOverwrittenWholesale ==
    /\ PostsWritten =>
         /\ postsFile = JsonFile(Window(Dedup(Extracted(updates))))
         /\ \A a \in 1..Len(postsFile.posts) :
              \A b \in 1..Len(priorPosts.posts) :
                  postsFile.posts[a] # priorPosts.posts[b]
    /\ EnrichedWritten =>
         \A a \in 1..Len(enrichedFile.posts) :
             /\ \E k \in 1..Len(fa.targetPosts) :
                    enrichedFile.posts[a] =
                        Entry(fa.targetPosts[k], PageData(fa.targetPosts[k]))
             /\ \A b \in 1..Len(priorEnriched.posts) :
                    enrichedFile.posts[a] # priorEnriched.posts[b]

\* A collection run has written its window over a file that held an entry.
C31_Witness ==
    /\ PostsWritten
    /\ priorPosts.exists
    /\ priorPosts.posts # << >>
    /\ Len(postsFile.posts) >= 2


(***************************************************************************)
(* C33: a status poll that finds the artifact created but not yet written  *)
(* (the login script is inside writeFileSync) does not answer 'error'.     *)
(***************************************************************************)
C33_MidWritePollNeverFails ==
    [][\A i \in SessionIds :
          (artifact[i].st = "empty" /\ GET(i)) => resp'.status # "error"]_vars


(***************************************************************************)
(* C34: a status poll for a session id leaves the artifact of every other  *)
(* id as it is; a poll for an id that has no artifact (never started,      *)
(* still running, or consumed) answers 'waiting' and changes neither an    *)
(* artifact nor the account table.                                         *)
(***************************************************************************)
C34_PollTouchesOnlyItsArtifact ==
    [][\A sid \in SessionIds :
          GET(sid) =>
            /\ \A j \in SessionIds \ {sid} : artifact'[j] = artifact[j]
            /\ artifact[sid].st = "absent" =>
                  /\ resp'.status = "waiting"
                  /\ artifact' = artifact
                  /\ accounts' = accounts]_vars

\* A poll has consumed the artifact of one session and answered connected
\* while the success artifact of another session is still in place.
C34_Witness ==
    \E i, j \in SessionIds :
        /\ i # j
        /\ resp = SaveBody(TRUE)
        /\ consumed[i] # {}
        /\ artifact[i] = Absent
        /\ artifact[j].st = "success"
        /\ consumed[j] = {}


(***************************************************************************)
(* C35: the poll unlinks the artifact before it encrypts and inserts.  A   *)
(* poll that read a success artifact and answers 'error' has added no row  *)
(* and left no artifact; and once the token of a session was consumed      *)
(* without a row, every later poll for that id answers 'waiting'.          *)
(***************************************************************************)
C35_FailedSaveLosesToken ==
    [][\A i \in SessionIds :
          GET(i) =>
            /\ (artifact[i].st = "success" /\ resp'.status = "error") =>
                  (accounts' = accounts /\ artifact'[i] = Absent)
            /\ (consumed[i] # {} /\ RowsOf(i) = {}) =>
                  resp'.status = "waiting"]_vars


(***************************************************************************)
(* C37: a collection run is in or past its scroll phase only if the        *)
(* navigation to the feed ended without error and left the page on a URL   *)
(* without 'login' or 'guest'; so a failed feed navigation is never        *)
(* followed by a write of data/posts.json.                                 *)
(***************************************************************************)
C37_ScrollOnlyAfterCleanFeedNavigation ==
    (fp.pc \in {"scroll", "extract", "dedup", "save", "sync", "close"}
       \/ fp.exit = "ok")
    => (fp.err = "" /\ ~Redirected(fp.url))


(***************************************************************************)
(* C38: an enrichment run that reached the loop over the posts ends with   *)
(* data/posts_enriched.json overwritten by the filtered results of the     *)
(* run (unless the write itself throws): with every post failed or         *)
(* dropped the file is the empty list.                                     *)
(***************************************************************************)
\* The run got to line 102: the browser, context and page were created.
LoopReached == fa.browser # "none" /\ fa.err # "context"

C38_LoopEndsWithOverwrite ==
    (fa.pc = "done" /\ LoopReached /\ fa.err # "save") =>
        /\ fa.exit = "ok"
        /\ enrichedFile = JsonFile(FinalResults(results))
        /\ results = << >> => enrichedFile = JsonFile(<< >>)


(***************************************************************************)
(* C39: a reference without postUrn and url is skipped like a post whose   *)
(* processing failed: once the loop is at such a reference the run neither *)
(* goes to its outer catch for it nor ends before the other references     *)
(* were processed, the file written and the browser closed.                *)
(***************************************************************************)
C39_UrnlessReferenceIsSkipped ==
    \A k \in 1..Len(fa.targetPosts) :
        (fa.targetPosts[k].postUrn = "" /\ LoopReached /\ fa.k >= k) =>
            /\ fa.err \in {"", "save"}
            /\ fa.pc = "done" =>
                  (fa.k = Len(fa.targetPosts) + 1 /\ fa.browser = "closed")
            /\ fa.exit = "ok" => enrichedFile = JsonFile(FinalResults(results))


(***************************************************************************)
(* Properties of the page and its polls (SpecClient).                      *)
(***************************************************************************)
(***************************************************************************)
(* C32: of the polls for one session id that are in flight at once, at     *)
(* most one read and consumed the artifact: of any two whose responses are *)
(* on their way to the page, one says 'waiting', so no two of them         *)
(* inserted a row.                                                         *)
(***************************************************************************)
C32_OneConsumerAmongConcurrentPolls ==
    \A p, q \in 1..MaxPolls :
        (/\ p # q
         /\ client.polls[p].st = "fetched"
         /\ client.polls[q].st = "fetched"
         /\ client.polls[p].sid = client.polls[q].sid)
        => (client.polls[p].status = "waiting" \/ client.polls[q].status = "waiting")


(***************************************************************************)
(* C36: the page goes idle -> starting -> waiting -> (success | error),    *)
(* and from an end state to starting again on a new click.  Its interval   *)
(* is active exactly while status is 'waiting' (it is kept on 'waiting'    *)
(* responses and failed requests and cleared at the first other status),   *)
(* there are never two intervals, status 'success' is shown only when an   *)
(* account row exists, and a 'timeout' response is shown as 'error'.       *)
(***************************************************************************)
\* The changes of status the page makes.
ClientTransitions ==
    { << "idle", "starting" >>, << "starting", "waiting" >>,
      << "starting", "error" >>, << "waiting", "success" >>,
      << "waiting", "error" >>, << "success", "starting" >>,
      << "error", "starting" >> }

C36_ClientFollowsItsStateMachine ==
    /\ [](/\ Cardinality(client.timers) <= 1
          /\ client.timers # {} <=> client.status = "waiting"
          /\ client.status = "success" => accounts # << >>)
    /\ [][ /\ client'.status # client.status =>
                << client.status, client'.status >> \in ClientTransitions
           /\ \A p \in 1..MaxPolls :
                (PollHandled(p) /\ client.polls[p].status = "timeout")
                    => client'.status = "error" ]_vars

=============================================================================
